---- MODULE Spec2Model ----
\* Dialogue state machine of the conversational banking agent:
\* session state store (core/state_manager.py), intent router and handlers
\* (core/agent.py), tool executor (core/tool_executor.py), conversation history
\* (core/context_manager.py), completion provider (services/llm_provider.py)
\* and the data-access functions they call (services/mock_banking_api.py,
\* services/database_service.py).
\*
\* Representation:
\*   - text is a TLA+ string; Python's `in`, str.lower, str.strip and the
\*     regular expressions of the source are computed character by character;
\*   - a Python dict is a function whose DOMAIN is the set of keys present;
\*   - an optional value (None or v) is a sequence of length 0 or 1;
\*   - a float amount of money is an integer number of cents;
\*   - datetime.now() is the value of the turn clock `now`.
EXTENDS Integers, Sequences, FiniteSets, TLC

VARIABLES
    state,       \* session_state row of the session: the Session State Document
    stored,      \* TRUE iff the session has a session_state row
    calls,       \* update_state arguments applied since the row was created or cleared;
                 \* for a function followed on its own, the record of its last call
    cards,       \* cards table: card_id -> row
    loans,       \* loan_applications table, in insertion order
    card_apps,   \* number of rows of card_applications
    history_len, \* number of rows of conversation_history of the session
    now,         \* clock: number of turns processed
    turn,        \* what the last call of process_turn did
    scenario,    \* progress of the session along the suspension round trip
    in_turn,     \* the turn whose writes are being committed one by one, if any
    in_update,   \* the update_state calls that have started and their positions
    sessions,    \* session_state table when several sessions are followed: session_id -> row
    history      \* conversation_history table when several sessions are followed

vars == <<state, stored, calls, cards, loans, card_apps, history_len, now, turn, scenario,
          in_turn, in_update, sessions, history>>

\* ------------------------------------------------------------------ bounds
MaxTurns == 4
MaxCalls == 3
MaxLoans == 3
MaxInflight == 2
MaxSessionTurns == 3

\* ------------------------------------------------------------ text helpers
Digits == {"0", "1", "2", "3", "4", "5", "6", "7", "8", "9"}
NumComma == Digits \cup {","}

Char(s, i) == SubSeq(s, i, i)

\* Python: s[i-1:j], empty when j < i
Sub(s, i, j) == IF j < i THEN "" ELSE SubSeq(s, i, j)

UpperToLower ==
    [c \in {"A", "B", "C", "D", "E", "F", "G", "H", "I", "J", "K", "L", "M",
            "N", "O", "P", "Q", "R", "S", "T", "U", "V", "W", "X", "Y", "Z"} |->
        CASE c = "A" -> "a" [] c = "B" -> "b" [] c = "C" -> "c" [] c = "D" -> "d"
          [] c = "E" -> "e" [] c = "F" -> "f" [] c = "G" -> "g" [] c = "H" -> "h"
          [] c = "I" -> "i" [] c = "J" -> "j" [] c = "K" -> "k" [] c = "L" -> "l"
          [] c = "M" -> "m" [] c = "N" -> "n" [] c = "O" -> "o" [] c = "P" -> "p"
          [] c = "Q" -> "q" [] c = "R" -> "r" [] c = "S" -> "s" [] c = "T" -> "t"
          [] c = "U" -> "u" [] c = "V" -> "v" [] c = "W" -> "w" [] c = "X" -> "x"
          [] c = "Y" -> "y" [] c = "Z" -> "z"]

RECURSIVE py_lower(_)
\* Python: s.lower()
py_lower(s) ==
    IF s = "" THEN ""
    ELSE (IF Char(s, 1) \in DOMAIN UpperToLower THEN UpperToLower[Char(s, 1)] ELSE Char(s, 1))
         \o py_lower(Sub(s, 2, Len(s)))

RECURSIVE py_strip(_)
\* Python: s.strip()
py_strip(s) ==
    IF s = "" THEN ""
    ELSE IF Char(s, 1) = " " THEN py_strip(Sub(s, 2, Len(s)))
    ELSE IF Char(s, Len(s)) = " " THEN py_strip(Sub(s, 1, Len(s) - 1))
    ELSE s

RECURSIVE remove(_, _)
\* Python: s.replace(c, '') for a one-character c
remove(s, c) ==
    IF s = "" THEN ""
    ELSE (IF Char(s, 1) = c THEN "" ELSE Char(s, 1)) \o remove(Sub(s, 2, Len(s)), c)

DigitVal(c) ==
    CASE c = "0" -> 0 [] c = "1" -> 1 [] c = "2" -> 2 [] c = "3" -> 3 [] c = "4" -> 4
      [] c = "5" -> 5 [] c = "6" -> 6 [] c = "7" -> 7 [] c = "8" -> 8 [] c = "9" -> 9

RECURSIVE IntOf(_)
\* value of a non-empty string of decimal digits
IntOf(s) == IF Len(s) = 1 THEN DigitVal(s)
            ELSE 10 * IntOf(SubSeq(s, 1, Len(s) - 1)) + DigitVal(Char(s, Len(s)))

AllIn(s, charset) == \A i \in 1..Len(s) : Char(s, i) \in charset

\* Python: float(s) for the strings the extraction code passes to it (digits
\* with an optional '.dd' tail).  <<v>> is the value in cents, <<>> stands for
\* the ValueError that float raises on any other string (the empty string included).
float(s) ==
    IF Len(s) >= 1 /\ AllIn(s, Digits) THEN <<100 * IntOf(s)>>
    ELSE IF Len(s) >= 3 /\ Char(s, Len(s) - 2) = "."
            /\ AllIn(Sub(s, 1, Len(s) - 3), Digits)
            /\ AllIn(SubSeq(s, Len(s) - 1, Len(s)), Digits)
         THEN <<(IF Len(s) = 3 THEN 0 ELSE 100 * IntOf(SubSeq(s, 1, Len(s) - 3)))
                + IntOf(SubSeq(s, Len(s) - 1, Len(s)))>>
    ELSE <<>>

\* end of the longest run of characters of charset that starts at position i
RECURSIVE RunEnd(_, _, _)
RunEnd(s, i, charset) ==
    IF i + 1 <= Len(s) /\ Char(s, i + 1) \in charset THEN RunEnd(s, i + 1, charset) ELSE i

\* The text matched by [0-9,]+(?:\.[0-9]{2})? when the match starts at
\* position i (Char(s, i) is a digit or a comma): greedy run, then the
\* optional two-decimal tail.
NumberAt(s, i) ==
    LET e == RunEnd(s, i, NumComma)
        tail == e + 3 <= Len(s) /\ Char(s, e + 1) = "."
                /\ Char(s, e + 2) \in Digits /\ Char(s, e + 3) \in Digits
    IN SubSeq(s, i, IF tail THEN e + 3 ELSE e)

\* first position >= from that holds a digit or a comma, 0 if none
FirstNum(s, from) ==
    LET P == {i \in from..Len(s) : Char(s, i) \in NumComma}
    IN IF P = {} THEN 0 ELSE CHOOSE i \in P : \A j \in P : i <= j

\* group(1) of re.search(r'\$?([0-9,]+(?:\.[0-9]{2})?)', s): <<text>>, or <<>> when there is no match
py_amount_match(s) ==
    IF FirstNum(s, 1) = 0 THEN <<>> ELSE <<NumberAt(s, FirstNum(s, 1))>>

\* re.match(r'^\$?[0-9,]+(?:\.[0-9]{2})?$', s)
py_is_numerical_response(s) ==
    LET u == IF s # "" /\ Char(s, 1) = "$" THEN Sub(s, 2, Len(s)) ELSE s
    IN /\ Len(u) >= 1
       /\ Char(u, 1) \in NumComma
       /\ NumberAt(u, 1) = u

IncomeWords == {"income", "earn", "salary", "make"}

\* group(1) of re.search(r'(?:income|earn|salary|make).*?\$?([0-9,]+(?:\.[0-9]{2})?)', s)
py_income_match(s) ==
    LET Ends == {i + Len(w) - 1 : <<i, w>> \in
                    {p \in (1..Len(s)) \X IncomeWords :
                        /\ p[1] + Len(p[2]) - 1 <= Len(s)
                        /\ SubSeq(s, p[1], p[1] + Len(p[2]) - 1) = p[2]}}
        Hits == {e \in Ends : FirstNum(s, e + 1) # 0}
    IN IF Hits = {} THEN <<>>
       ELSE LET e == CHOOSE h \in Hits : \A g \in Hits : h <= g
            IN <<NumberAt(s, FirstNum(s, e + 1))>>

\* card_id built from re.search(r'card_(\d+)', s): "card_" + group(1).zfill(3)
py_card_match(s) ==
    LET P == {i \in 1..Len(s) : /\ i + 5 <= Len(s)
                                /\ SubSeq(s, i, i + 4) = "card_"
                                /\ Char(s, i + 5) \in Digits}
    IN IF P = {} THEN <<>>
       ELSE LET i == CHOOSE p \in P : \A q \in P : p <= q
                d == SubSeq(s, i + 5, RunEnd(s, i + 5, Digits))
                zfill == IF Len(d) = 1 THEN "00" \o d ELSE IF Len(d) = 2 THEN "0" \o d ELSE d
            IN <<"card_" \o zfill>>

\* ====== model of the program
\* the messages a session is driven with
Messages ==
    {"account details and balance", "my balance", "statement", "Card Management",
     "block my card services", "block my card", "get new card", "my cards",
     "my loans", "new loan, not my loans", "apply for loan", "loan 5000 car",
     "15000", "$15,000", "i make 60000", "continue loan", ",",
     "card_001", "card_005", "option 1", "option 2", "option 3", "lost card"}

\* every text the handlers examine: the messages, lower-cased and stripped
Texts == Messages \cup {py_lower(m) : m \in Messages} \cup {py_strip(m) : m \in Messages}

\* The text functions, computed once for every text.
LowerOf == [s \in Texts |-> py_lower(s)]
StripOf == [s \in Texts |-> py_strip(s)]
SubstringsOf == [s \in Texts |-> {Sub(s, i, j) : i \in 1..Len(s), j \in 0..Len(s)}]
AmountMatchOf == [s \in Texts |-> py_amount_match(s)]
IncomeMatchOf == [s \in Texts |-> py_income_match(s)]
CardMatchOf == [s \in Texts |-> py_card_match(s)]
NumericalOf == [s \in Texts |-> py_is_numerical_response(s)]

lower(s) == LowerOf[s]
strip(s) == StripOf[s]
\* Python: p in m
In(p, m) == p \in SubstringsOf[m]
amount_match(s) == AmountMatchOf[s]
income_match(s) == IncomeMatchOf[s]
card_match(s) == CardMatchOf[s]
is_numerical_response(s) == NumericalOf[s]

\* Python: any(phrase in m for phrase in phrases)
AnyIn(phrases, m) == \E p \in phrases : In(p, m)

\* -------------------------------------------------------------- dict helpers
EmptyDict == [k \in {} |-> 0]

\* Python: d[k] = v
Put(d, k, v) == [x \in DOMAIN d \cup {k} |-> IF x = k THEN v ELSE d[x]]

\* Python: if k in d: del d[k]
Del(d, k) == [x \in DOMAIN d \ {k} |-> d[x]]

\* Python: d.get(k, {}) for a dict-valued key
GetDict(d, k) == IF k \in DOMAIN d THEN d[k] ELSE EmptyDict

\* Python: d.get(k) for a string-valued key; "None" stands for None
GetStr(d, k) == IF k \in DOMAIN d THEN d[k] ELSE "None"

\* Python: d.get(k) as an optional value: <<>> for None, <<v>> otherwise
GetOpt(d, k) == IF k \in DOMAIN d THEN <<d[k]>> ELSE <<>>

\* Python truthiness of an optional number: None and 0.0 are falsy
TruthyNum(o) == o # <<>> /\ o[1] # 0

\* Python truthiness of an optional string: None is falsy (no empty strings occur)
TruthyStr(o) == o # <<>>

\* Python: a or b, for optional numbers
OrNum(a, b) == IF TruthyNum(a) THEN a ELSE b

\* Python: a or b, for optional strings
OrStr(a, b) == IF TruthyStr(a) THEN a ELSE b

\* ----------------------------------------------------- session state store
\* StateManager.get_state answering an empty document for a session without a row
get_state_default(st, sto) == IF sto THEN <<st>> ELSE <<EmptyDict>>

\* StateManager.get_state: <<document>> of the session's row, <<>> (None) without a row
get_state(st, sto) == IF sto THEN <<st>> ELSE <<>>

\* StateManager.update_state merging the two dicts at every level of
\* multi_step_process instead of replacing the key
update_state_deep(existing_state, new_state_data) ==
    [k \in DOMAIN existing_state \cup DOMAIN new_state_data |->
        IF k \notin DOMAIN new_state_data THEN existing_state[k]
        ELSE IF k = "multi_step_process" /\ k \in DOMAIN existing_state
        THEN [f \in DOMAIN existing_state[k] \cup DOMAIN new_state_data[k] |->
                IF f \in DOMAIN new_state_data[k] THEN new_state_data[k][f]
                ELSE existing_state[k][f]]
        ELSE new_state_data[k]]

\* StateManager.update_state with the dict.update of a replacing store
update_state_replace(existing_state, new_state_data) == new_state_data

\* StateManager.update_state: existing_state.update(new_state_data)
update_state(existing_state, new_state_data) ==
    [k \in DOMAIN existing_state \cup DOMAIN new_state_data |->
        IF k \in DOMAIN new_state_data THEN new_state_data[k] ELSE existing_state[k]]

\* Values the store is exercised with: update_state treats them as opaque.
PendingValues == {"pending_a", "pending_b"}
ProcessValues == {"process_a", "process_b"}

\* The update documents the store is exercised with.
Updates ==
    {Put(EmptyDict, "pending_action", v) : v \in PendingValues}
    \cup {Put(EmptyDict, "multi_step_process", v) : v \in ProcessValues}
    \cup {Put(Put(EmptyDict, "pending_action", v), "multi_step_process", w) :
            v \in PendingValues, w \in ProcessValues}
    \cup {Put(EmptyDict, "context_switched", TRUE), EmptyDict}

\* the value of turn before the first call of process_turn
NoTurn == [message |-> "", route |-> "none", handlers |-> {}, raised |-> FALSE,
           response |-> <<>>, process_before |-> EmptyDict, pending_before |-> EmptyDict,
           loan_result |-> <<>>, loan_args |-> <<>>, block_result |-> <<>>,
           balance_result |-> <<>>, tool_call |-> "", tool_args |-> {}]

\* One call of StateManager.update_state on the session:
\* existing_state = self.get_state(session_id) or {}
UpdateState ==
    /\ Len(calls) < MaxCalls
    /\ \E u \in Updates :
        /\ state' = update_state(IF get_state(state, stored) = <<>> THEN EmptyDict
                                 ELSE get_state(state, stored)[1], u)
        /\ calls' = Append(calls, u)
    /\ stored' = TRUE
    /\ UNCHANGED <<cards, loans, card_apps, history_len, now, turn, scenario, in_turn,
                   in_update, sessions, history>>

\* One call of StateManager.clear_state on the session.
ClearState ==
    /\ stored
    /\ state' = EmptyDict
    /\ stored' = FALSE
    /\ calls' = <<>>
    /\ UNCHANGED <<cards, loans, card_apps, history_len, now, turn, scenario, in_turn,
                   in_update, sessions, history>>

\* ------------------------------------------------------------ banking data
USER == "user123"

\* DatabaseService._insert_sample_data: the five cards of user123 (amounts in cents)
SampleCards ==
    << [card_id |-> "card_001", user_id |-> USER, type |-> "credit", status |-> "active",
        limit_amount |-> <<1500000>>, available_credit |-> <<1250000>>, blocked_date |-> <<>>],
       [card_id |-> "card_002", user_id |-> USER, type |-> "debit", status |-> "active",
        limit_amount |-> <<>>, available_credit |-> <<>>, blocked_date |-> <<>>],
       [card_id |-> "card_003", user_id |-> USER, type |-> "credit", status |-> "active",
        limit_amount |-> <<2500000>>, available_credit |-> <<1875000>>, blocked_date |-> <<>>],
       [card_id |-> "card_004", user_id |-> USER, type |-> "debit", status |-> "active",
        limit_amount |-> <<>>, available_credit |-> <<>>, blocked_date |-> <<>>],
       [card_id |-> "card_005", user_id |-> USER, type |-> "credit", status |-> "blocked",
        limit_amount |-> <<1000000>>, available_credit |-> <<850000>>, blocked_date |-> <<0>>] >>

\* DatabaseService._insert_sample_data: the approved loan LOAN001
SampleLoans ==
    << [application_id |-> 1, amount |-> 2500000, purpose |-> "Home Renovation",
        annual_income |-> <<>>, status |-> "approved", interest_rate |-> 52, term_months |-> 60] >>

\* DatabaseService.get_user: only the sample user exists
get_user(user_id) == user_id = USER

\* DatabaseService.get_card: <<row>> or <<>>
get_card(cs, card_id) ==
    LET P == {i \in 1..Len(cs) : cs[i].card_id = card_id}
    IN IF P = {} THEN <<>> ELSE <<cs[CHOOSE i \in P : TRUE]>>

\* DatabaseService.get_user_cards selecting only the cards that are active
get_user_cards_rows_active(cs, user_id) ==
    SelectSeq(cs, LAMBDA c : c.user_id = user_id /\ c.status = "active")

\* DatabaseService.get_user_cards: rows of the user in table order
get_user_cards_rows(cs, user_id) == SelectSeq(cs, LAMBDA c : c.user_id = user_id)

\* ids of a list of card rows, as presented in an options list
OptionIds(rows) == [i \in 1..Len(rows) |-> rows[i].card_id]

\* DatabaseService.block_card: UPDATE cards SET status = 'blocked', blocked_date = now
db_block_card(cs, card_id, t) ==
    [i \in 1..Len(cs) |->
        IF cs[i].card_id = card_id
        THEN [cs[i] EXCEPT !.status = "blocked", !.blocked_date = <<t>>]
        ELSE cs[i]]

\* mock_banking_api.block_card_data without the test for a card that is
\* already blocked
block_card_data_reblock(cs, user_id, card_id, t) ==
    LET card == get_card(cs, card_id)
    IN IF card = <<>> THEN [result |-> [status |-> "error", confirmation_code |-> FALSE], cards |-> cs]
       ELSE IF card[1].user_id # user_id
            THEN [result |-> [status |-> "error", confirmation_code |-> FALSE], cards |-> cs]
       ELSE [result |-> [status |-> "success", confirmation_code |-> TRUE],
             cards |-> db_block_card(cs, card_id, t)]

\* mock_banking_api.block_card_data without the test of the owner of the card
block_card_data_any_owner(cs, user_id, card_id, t) ==
    LET card == get_card(cs, card_id)
    IN IF card = <<>> THEN [result |-> [status |-> "error", confirmation_code |-> FALSE], cards |-> cs]
       ELSE IF card[1].status = "blocked"
            THEN [result |-> [status |-> "warning", confirmation_code |-> FALSE], cards |-> cs]
       ELSE [result |-> [status |-> "success", confirmation_code |-> TRUE],
             cards |-> db_block_card(cs, card_id, t)]

\* mock_banking_api.block_card_data: result and the cards table afterwards
block_card_data(cs, user_id, card_id, t) ==
    LET card == get_card(cs, card_id)
    IN IF card = <<>> THEN [result |-> [status |-> "error", confirmation_code |-> FALSE], cards |-> cs]
       ELSE IF card[1].user_id # user_id
            THEN [result |-> [status |-> "error", confirmation_code |-> FALSE], cards |-> cs]
       ELSE IF card[1].status = "blocked"
            THEN [result |-> [status |-> "warning", confirmation_code |-> FALSE], cards |-> cs]
       ELSE [result |-> [status |-> "success", confirmation_code |-> TRUE],
             cards |-> db_block_card(cs, card_id, t)]

\* Python: sum(amounts) over a list of optional amounts, None counted as 0
RECURSIVE SumOpt(_)
SumOpt(amounts) ==
    IF amounts = <<>> THEN 0
    ELSE (IF Head(amounts) = <<>> THEN 0 ELSE Head(amounts)[1]) + SumOpt(Tail(amounts))

\* mock_banking_api.get_account_balance_data: the status and the credit cards
\* summary; the account fields of the users row never change
get_account_balance_data(cs, user_id) ==
    LET rows == get_user_cards_rows(cs, user_id)
        credit_cards == SelectSeq(rows, LAMBDA c : c.type = "credit" /\ TruthyNum(c.limit_amount))
    IN IF ~get_user(user_id) THEN [status |-> "error", total_limit |-> 0, total_available |-> 0]
       ELSE [status |-> "success",
             total_limit |-> SumOpt([i \in 1..Len(credit_cards) |-> credit_cards[i].limit_amount]),
             total_available |-> SumOpt([i \in 1..Len(credit_cards) |-> credit_cards[i].available_credit])]

\* tools.banking_api.get_user_cards: selection interface over the user's cards
get_user_cards(cs, user_id) ==
    LET rows == get_user_cards_rows(cs, user_id)
    IN IF rows = <<>> THEN [requires_selection |-> FALSE, status |-> "error", options |-> <<>>]
       ELSE [requires_selection |-> TRUE, status |-> "None", options |-> OptionIds(rows)]

\* mock_banking_api.get_card_management_options
get_card_management_options(user_id) ==
    IF ~get_user(user_id) THEN [requires_selection |-> FALSE, options |-> <<>>]
    ELSE [requires_selection |-> TRUE, options |-> <<"block_card", "apply_new_card", "modify_limit">>]

\* mock_banking_api.get_new_card_type_options
get_new_card_type_options == [requires_selection |-> TRUE, options |-> <<"credit_card", "debit_card">>]

\* mock_banking_api.get_card_brand_options
get_card_brand_options == [requires_selection |-> TRUE, options |-> <<"visa", "mastercard", "rupay">>]

\* mock_banking_api.get_cards_for_limit_modification
get_cards_for_limit_modification(cs, user_id) ==
    LET credit_cards == SelectSeq(get_user_cards_rows(cs, user_id),
                                  LAMBDA c : c.type = "credit" /\ c.status = "active")
    IN IF credit_cards = <<>> THEN [requires_selection |-> FALSE, options |-> <<>>]
       ELSE [requires_selection |-> TRUE, options |-> OptionIds(credit_cards)]

\* mock_banking_api.get_current_limit_info
get_current_limit_info(cs, user_id, card_id) ==
    LET card == get_card(cs, card_id)
        error == [status |-> "error", requires_continuation |-> FALSE,
                  process_type |-> "None", current_step |-> "None", collected_data |-> EmptyDict]
    IN IF card = <<>> THEN error
       ELSE IF card[1].user_id # user_id THEN error
       ELSE IF card[1].type = "credit" /\ TruthyNum(card[1].limit_amount)
            THEN [status |-> "info", requires_continuation |-> TRUE,
                  process_type |-> "limit_modification", current_step |-> "new_limit",
                  collected_data |-> [card_id |-> card_id, current_limit |-> card[1].limit_amount[1]]]
       ELSE error

\* f"{n:03d}" for 0 <= n < 1000
Fmt3(n) ==
    LET D == <<"0", "1", "2", "3", "4", "5", "6", "7", "8", "9">>
    IN D[(n \div 100) + 1] \o D[((n \div 10) % 10) + 1] \o D[(n % 10) + 1]

\* mock_banking_api.apply_new_card_data (the second definition, which creates the card)
apply_new_card_data(cs, user_id, card_type, brand) ==
    IF ~get_user(user_id) THEN [status |-> "error", cards |-> cs, applications |-> 0]
    ELSE
    LET card_id == "card_" \o Fmt3(Len(get_user_cards_rows(cs, user_id)) + 1)
        card_type_clean == IF card_type = "credit_card" THEN "credit" ELSE "debit"
        limit_amount == IF brand = "visa" THEN 1000000
                        ELSE IF brand = "mastercard" THEN 1500000 ELSE 800000
        row == [card_id |-> card_id, user_id |-> user_id, type |-> card_type_clean,
                status |-> "active",
                limit_amount |-> IF card_type_clean = "credit" THEN <<limit_amount>> ELSE <<>>,
                available_credit |-> IF card_type_clean = "credit"
                                     THEN <<(limit_amount * 9) \div 10>> ELSE <<>>,
                blocked_date |-> <<>>]
    IN [status |-> "success", cards |-> Append(cs, row), applications |-> 1]

RECURSIVE MulDivRem(_, _, _)
\* <<quotient, remainder>> of a * b divided by c, for 0 <= b <= c, computed
\* without forming the product
MulDivRem(a, b, c) ==
    IF a = 0 THEN <<0, 0>>
    ELSE LET h == MulDivRem(a \div 2, b, c)
             r == 2 * h[2] + (IF a % 2 = 1 THEN b ELSE 0)
         IN <<2 * h[1] + (r \div c), r % c>>

\* mock_banking_api.modify_credit_limit_data without the test of the maximum
modify_credit_limit_data_no_maximum(cs, user_id, card_id, new_limit) ==
    LET card == get_card(cs, card_id)
    IN IF card = <<>> THEN [status |-> "error", cards |-> cs]
       ELSE IF card[1].user_id # user_id THEN [status |-> "error", cards |-> cs]
       ELSE IF card[1].type # "credit" THEN [status |-> "error", cards |-> cs]
       ELSE IF new_limit < 100000 THEN [status |-> "error", cards |-> cs]
       ELSE LET old_limit == card[1].limit_amount[1]
                available == IF card[1].available_credit = <<>> THEN 0
                             ELSE card[1].available_credit[1]
                new_available_credit == new_limit - MulDivRem(new_limit, old_limit - available, old_limit)[1]
            IN [status |-> "success",
                cards |-> [i \in 1..Len(cs) |->
                              IF cs[i].card_id = card_id
                              THEN [cs[i] EXCEPT !.limit_amount = <<new_limit>>,
                                                 !.available_credit = <<new_available_credit>>]
                              ELSE cs[i]]]

\* mock_banking_api.modify_credit_limit_data (amounts in cents; the new
\* available credit keeps the utilisation of the old limit, rounded to a cent)
modify_credit_limit_data(cs, user_id, card_id, new_limit) ==
    LET card == get_card(cs, card_id)
    IN IF card = <<>> THEN [status |-> "error", cards |-> cs]
       ELSE IF card[1].user_id # user_id THEN [status |-> "error", cards |-> cs]
       ELSE IF card[1].type # "credit" THEN [status |-> "error", cards |-> cs]
       ELSE IF new_limit < 100000 THEN [status |-> "error", cards |-> cs]
       ELSE IF new_limit > 10000000 THEN [status |-> "error", cards |-> cs]
       ELSE LET old_limit == card[1].limit_amount[1]
                available == IF card[1].available_credit = <<>> THEN 0
                             ELSE card[1].available_credit[1]
                new_available_credit == new_limit - MulDivRem(new_limit, old_limit - available, old_limit)[1]
            IN [status |-> "success",
                cards |-> [i \in 1..Len(cs) |->
                              IF cs[i].card_id = card_id
                              THEN [cs[i] EXCEPT !.limit_amount = <<new_limit>>,
                                                 !.available_credit = <<new_available_credit>>]
                              ELSE cs[i]]]

\* the banding with the bounds of the bands taken inclusive (<= for <)
interest_rate_inclusive(amount, income) ==
    LET divisor == IF income > 0 THEN income ELSE 5000000
    IN IF amount * 12 * 10 <= divisor THEN 52
       ELSE IF amount * 12 * 10 <= 2 * divisor THEN 65
       ELSE IF amount * 12 * 10 <= 3 * divisor THEN 82
       ELSE 105

\* interest rate in tenths of a percent, from
\* debt_to_income_ratio = (amount * 12) / (income if income > 0 else 50000):
\* ratio < k/10 is amount * 12 * 10 < k * divisor
interest_rate(amount, income) ==
    LET divisor == IF income > 0 THEN income ELSE 5000000
    IN IF amount * 12 * 10 < divisor THEN 52
       ELSE IF amount * 12 * 10 < 2 * divisor THEN 65
       ELSE IF amount * 12 * 10 < 3 * divisor THEN 82
       ELSE 105

NoLoanResult == [status |-> "error", requires_continuation |-> FALSE, process_complete |-> FALSE,
                 process_type |-> "None", current_step |-> "None", collected_data |-> EmptyDict,
                 application |-> <<>>]

\* mock_banking_api.apply_for_loan_data: result and the rows added to loan_applications
apply_for_loan_data(ls, user_id, amount, purpose, income, force_new) ==
    LET approved_loans == SelectSeq(ls, LAMBDA a : a.status = "approved")
        ask(step, data) == [NoLoanResult EXCEPT !.status = "info", !.requires_continuation = TRUE,
                                                !.process_type = "loan_application",
                                                !.current_step = step, !.collected_data = data]
    IN IF ~get_user(user_id) THEN [result |-> NoLoanResult, loans |-> ls]
       ELSE IF force_new \/ (~(TruthyNum(amount) \/ TruthyStr(purpose) \/ TruthyNum(income))
                             /\ approved_loans # <<>>)
            THEN [result |-> ask("amount", EmptyDict), loans |-> ls]
       ELSE IF ~TruthyNum(amount)
            THEN [result |-> ask("amount", EmptyDict), loans |-> ls]
       ELSE IF ~TruthyStr(purpose)
            THEN [result |-> ask("purpose", [amount |-> amount[1]]), loans |-> ls]
       ELSE IF ~TruthyNum(income)
            THEN [result |-> ask("income", [amount |-> amount[1], purpose |-> purpose[1]]), loans |-> ls]
       ELSE LET new_app == [application_id |-> Len(ls) + 1, amount |-> amount[1],
                            purpose |-> purpose[1], annual_income |-> income,
                            status |-> "in_review",
                            interest_rate |-> interest_rate(amount[1], income[1]),
                            term_months |-> 60]
            IN [result |-> [NoLoanResult EXCEPT !.status = "success", !.process_complete = TRUE,
                                                !.application = <<new_app>>],
                loans |-> Append(ls, new_app)]

\* ------------------------------------------------- the working copy of a turn
\* A handler maps a world (the stores as the turn has left them so far, the
\* response produced, whether an exception escaped, the handlers entered and
\* the last apply_for_loan call, the last block_card and get_account_balance
\* results) to a world.
World(st, sto, cs, ls, ca, hl) ==
    [state |-> st, stored |-> sto, cards |-> cs, loans |-> ls, card_apps |-> ca,
     history_len |-> hl, response |-> <<>>, raised |-> FALSE, handlers |-> {},
     loan_result |-> <<>>, loan_args |-> <<>>, block_result |-> <<>>, balance_result |-> <<>>]

Enter(w, handler) == [w EXCEPT !.handlers = @ \cup {handler}]

\* self.state_manager.update_state(session_id, data)
Save(w, data) == [w EXCEPT !.state = update_state(w.state, data), !.stored = TRUE]

\* ChatResponse(response=..., requires_selection=..., options=...); the text is
\* the name of its template and note is the resumption nudge appended to it
ChatResponse(text, note, requires_selection, options) ==
    [text |-> text, note |-> note, requires_selection |-> requires_selection, options |-> options]

Reply(w, text) == [w EXCEPT !.response = <<ChatResponse(text, "", FALSE, <<>>)>>]

ReplyNote(w, text, note) == [w EXCEPT !.response = <<ChatResponse(text, note, FALSE, <<>>)>>]

ReplySelection(w, text, options) == [w EXCEPT !.response = <<ChatResponse(text, "", TRUE, options)>>]

\* an exception leaves the handler and process_turn: no ChatResponse is returned
Raise(w) == [w EXCEPT !.raised = TRUE, !.response = <<>>]

\* ContextManager.update_history: one row appended to conversation_history
update_history(w) == [w EXCEPT !.history_len = @ + 1]

\* Python: d.get(k, []) for a list-valued key
GetSeq(d, k) == IF k \in DOMAIN d THEN d[k] ELSE <<>>

\* the most recent suspended record whose process is a loan application
LastSuspendedLoan(suspended_processes) ==
    LET P == {i \in 1..Len(suspended_processes) :
                GetStr(suspended_processes[i].multi_step_process, "type") = "loan_application"}
    IN IF P = {} THEN <<>>
       ELSE <<suspended_processes[CHOOSE i \in P : \A j \in P : j <= i]>>

\* _calculate_process_completion counting the collected slots of a process
\* of any type
_calculate_process_completion_any_type(process) ==
    (Cardinality(DOMAIN GetDict(process, "collected_data")) * 100000) \div 3

\* ConversationalAgent._calculate_process_completion, in thousandths of a percent
_calculate_process_completion(process) ==
    IF GetStr(process, "type") = "loan_application"
    THEN (Cardinality(DOMAIN GetDict(process, "collected_data")) * 100000) \div 3
    ELSE 0

\* ConversationalAgent._save_current_process_on_context_switch without the
\* copy: the active process is moved into the suspended list
_save_current_process_moving(w, new_context, t) ==
    LET current_state == w.state
        active_process == GetDict(current_state, "multi_step_process")
    IN IF DOMAIN active_process # {}
       THEN [w EXCEPT !.state =
                Del(Put(current_state, "suspended_processes",
                        Append(GetSeq(current_state, "suspended_processes"),
                               [context |-> new_context, timestamp |-> t,
                                multi_step_process |-> active_process,
                                original_context |-> GetStr(active_process, "type"),
                                completion_percentage |-> _calculate_process_completion(active_process)])),
                    "multi_step_process")]
       ELSE w

\* ConversationalAgent._save_current_process_on_context_switch
_save_current_process_on_context_switch(w, new_context, t) ==
    LET current_state == w.state
        active_process == GetDict(current_state, "multi_step_process")
        suspended_process == [context |-> new_context, timestamp |-> t,
                              multi_step_process |-> active_process,
                              original_context |-> GetStr(active_process, "type"),
                              completion_percentage |-> _calculate_process_completion(active_process)]
    IN IF DOMAIN active_process # {}
       THEN Save(w, Put(Put(Put(current_state,
                    "suspended_processes",
                        Append(GetSeq(current_state, "suspended_processes"), suspended_process)),
                    "context_switched", TRUE),
                    "last_context_switch", new_context))
       ELSE w

\* ConversationalAgent._get_context_switch_message: the nudge appended to a response
_get_context_switch_message(w) ==
    LET suspended_processes == GetSeq(w.state, "suspended_processes")
        suspended_loan == LastSuspendedLoan(suspended_processes)
    IN IF suspended_processes = <<>> THEN ""
       ELSE IF suspended_loan # <<>> /\ suspended_loan[1].completion_percentage > 0
            THEN "loan_percent_complete"
       ELSE LET multi_step == suspended_processes[Len(suspended_processes)].multi_step_process
            IN IF DOMAIN multi_step = {} THEN ""
               ELSE IF GetStr(multi_step, "type") = "loan_application" THEN "loan_in_progress"
               ELSE "pending_action"

\* ------------------------------------------------------ direct handlers
\* ConversationalAgent._handle_account_details_query
_handle_account_details_query(w0, user_id, t) ==
    LET w == _save_current_process_on_context_switch(Enter(w0, "account_details"), "account_details", t)
    IN IF get_user(user_id)
       THEN update_history(ReplyNote(w, "account_details", _get_context_switch_message(w)))
       ELSE Reply(w, "account_details_unavailable")

\* ConversationalAgent._handle_balance_query with the resumption note read
\* before the active process is saved
_handle_balance_query_note_first(w0, user_id, t) ==
    LET ws == _save_current_process_on_context_switch(Enter(w0, "balance"), "balance", t)
        balance_result == get_account_balance_data(ws.cards, user_id)
        w == [ws EXCEPT !.balance_result = <<balance_result>>]
    IN IF balance_result.status = "success"
       THEN update_history(ReplyNote(w, "balance", _get_context_switch_message(w0)))
       ELSE Reply(w, "balance_unavailable")

\* ConversationalAgent._handle_balance_query
_handle_balance_query(w0, user_id, t) ==
    LET ws == _save_current_process_on_context_switch(Enter(w0, "balance"), "balance", t)
        balance_result == get_account_balance_data(ws.cards, user_id)
        w == [ws EXCEPT !.balance_result = <<balance_result>>]
    IN IF balance_result.status = "success"
       THEN update_history(ReplyNote(w, "balance", _get_context_switch_message(w)))
       ELSE Reply(w, "balance_unavailable")

\* ConversationalAgent._handle_transaction_query
_handle_transaction_query(w0, user_id, t) ==
    LET w == _save_current_process_on_context_switch(Enter(w0, "transactions"), "transactions", t)
    IN IF get_user(user_id)
       THEN update_history(ReplyNote(w, "transactions", _get_context_switch_message(w)))
       ELSE Reply(w, "transactions_unavailable")

\* ConversationalAgent._handle_card_management_query
_handle_card_management_query(w0, user_id, t) ==
    LET wa == Enter(w0, "card_management")
        multi_step == GetDict(wa.state, "multi_step_process")
        wb == IF "process_complete" \in DOMAIN multi_step /\ multi_step["process_complete"]
              THEN Save(wa, Del(wa.state, "multi_step_process"))
              ELSE wa
        w == _save_current_process_on_context_switch(wb, "card_management", t)
        management_result == get_card_management_options(user_id)
    IN IF management_result.requires_selection
       THEN ReplySelection(
                Save(w, Put(w.state, "pending_action",
                            [tool |-> "card_management", options |-> management_result.options,
                             process_type |-> "card_management"])),
                "card_management_menu", management_result.options)
       ELSE Reply(w, "card_management_unavailable")

\* ConversationalAgent._handle_new_card_application
_handle_new_card_application(w0, user_id, t) ==
    LET w == _save_current_process_on_context_switch(Enter(w0, "new_card_application"),
                                                     "new_card_application", t)
        type_result == get_new_card_type_options
    IN IF type_result.requires_selection
       THEN ReplySelection(
                Save(w, [pending_action |->
                            [tool |-> "new_card_application", step |-> "type_selection",
                             options |-> type_result.options,
                             process_type |-> "new_card_application"]]),
                "card_type_menu", type_result.options)
       ELSE Reply(w, "card_application_unavailable")

\* ConversationalAgent._handle_direct_card_blocking
_handle_direct_card_blocking(w0, user_id, t) ==
    LET w == _save_current_process_on_context_switch(Enter(w0, "card_blocking"), "card_blocking", t)
        cards_result == get_user_cards(w.cards, user_id)
    IN IF cards_result.requires_selection
       THEN ReplySelection(
                Save(w, [pending_action |->
                            [tool |-> "block_card", options |-> cards_result.options,
                             process_type |-> "card_blocking"]]),
                "select_card_to_block", cards_result.options)
       ELSE Reply(w, "cards_unavailable")

\* ConversationalAgent._handle_card_list_query
_handle_card_list_query(w0, user_id, t) ==
    LET w == _save_current_process_on_context_switch(Enter(w0, "cards"), "cards", t)
    IN IF get_user_cards_rows(w.cards, user_id) # <<>>
       THEN update_history(ReplyNote(w, "card_list", _get_context_switch_message(w)))
       ELSE Reply(w, "cards_unavailable")

\* ConversationalAgent._handle_loan_listing_query
_handle_loan_listing_query(w0, user_id, t) ==
    LET w == _save_current_process_on_context_switch(Enter(w0, "loan_listing"), "loan_listing", t)
    IN IF ~get_user(user_id) THEN Reply(w, "loans_unavailable")
       ELSE IF w.loans # <<>>
            THEN update_history(ReplyNote(w, "loan_list", _get_context_switch_message(w)))
       ELSE update_history(Reply(w, "no_loans"))

\* ------------------------------------------------------ loan application
\* purpose_keywords of _handle_loan_process, in dict order
purpose_keywords ==
    << <<"home", "Home Improvement">>, <<"house", "Home Improvement">>,
       <<"renovation", "Home Renovation">>, <<"car", "Auto Purchase">>,
       <<"vehicle", "Auto Purchase">>, <<"auto", "Auto Purchase">>,
       <<"debt", "Debt Consolidation">>, <<"consolidation", "Debt Consolidation">>,
       <<"medical", "Medical Expenses">>, <<"health", "Medical Expenses">>,
       <<"education", "Education">>, <<"school", "Education">>, <<"college", "Education">>,
       <<"business", "Business">>, <<"wedding", "Wedding">>, <<"marriage", "Wedding">>,
       <<"vacation", "Vacation">>, <<"travel", "Vacation">>, <<"personal", "Personal">>,
       <<"emergency", "Emergency Fund">> >>

\* the purpose of the first keyword, in dict order, that occurs in the message
extract_purpose(message_lower) ==
    LET P == {i \in 1..Len(purpose_keywords) : In(purpose_keywords[i][1], message_lower)}
    IN IF P = {} THEN <<>>
       ELSE <<purpose_keywords[CHOOSE i \in P : \A j \in P : i <= j][2]>>

\* extracted_amount: float of the first number of the message, None when float raises
extract_amount(message) ==
    IF amount_match(message) = <<>> THEN <<>>
    ELSE float(remove(amount_match(message)[1], ","))

\* extracted_income: float of the first number after an income word
extract_income(message_lower) ==
    IF income_match(message_lower) = <<>> THEN <<>>
    ELSE float(remove(income_match(message_lower)[1], ","))

\* float(message.strip().replace('$', '').replace(',', ''))
bare_number(message) == float(remove(remove(strip(message), "$"), ","))

is_resume_request(message_lower) ==
    AnyIn({"apply new loan", "new loan", "apply loan", "continue loan", "resume loan"}, message_lower)

is_new_loan_request(message_lower) ==
    AnyIn({"new loan", "apply for new loan", "another loan", "different loan",
           "start over", "fresh loan", "apply loan"}, message_lower)

\* the multi_step_process record written for a continuing loan result
LoanProcessRecord(loan_result, fresh) ==
    IF fresh
    THEN [type |-> loan_result.process_type, current_step |-> loan_result.current_step,
          collected_data |-> loan_result.collected_data, next_step |-> "None",
          is_new_application |-> TRUE]
    ELSE [type |-> loan_result.process_type, current_step |-> loan_result.current_step,
          collected_data |-> loan_result.collected_data, next_step |-> "None"]

\* _handle_loan_process, lines 736-799 without the fall-back to collected_data:
\* only what the current message yields is passed to apply_for_loan
LoanSlotsExtractedOnly(message, loan_process) ==
    LET message_lower == lower(message)
        numerical == /\ GetStr(loan_process, "type") = "loan_application"
                     /\ is_numerical_response(strip(message))
                     /\ ~TruthyNum(extract_income(message_lower))
        current_step == GetStr(loan_process, "current_step")
        extracted_amount == IF numerical /\ current_step = "amount"
                            THEN bare_number(message) ELSE extract_amount(message)
        extracted_income == IF numerical /\ current_step = "income"
                            THEN bare_number(message) ELSE extract_income(message_lower)
    IN [raised |-> numerical /\ current_step \in {"amount", "income"} /\ bare_number(message) = <<>>,
        amount |-> OrNum(extracted_amount, <<>>),
        purpose |-> extract_purpose(message_lower),
        income |-> OrNum(extracted_income, <<>>)]

\* _handle_loan_process, lines 736-799: the amount, purpose and income passed
\* to apply_for_loan, and whether float raised on a bare numeric answer
LoanSlots(message, loan_process) ==
    LET message_lower == lower(message)
        numerical == /\ GetStr(loan_process, "type") = "loan_application"
                     /\ is_numerical_response(strip(message))
                     /\ ~TruthyNum(extract_income(message_lower))
        current_step == GetStr(loan_process, "current_step")
        extracted_amount == IF numerical /\ current_step = "amount"
                            THEN bare_number(message) ELSE extract_amount(message)
        extracted_income == IF numerical /\ current_step = "income"
                            THEN bare_number(message) ELSE extract_income(message_lower)
        collected_data == GetDict(loan_process, "collected_data")
    IN [raised |-> numerical /\ current_step \in {"amount", "income"} /\ bare_number(message) = <<>>,
        amount |-> OrNum(extracted_amount, GetOpt(collected_data, "amount")),
        purpose |-> OrStr(extract_purpose(message_lower), GetOpt(collected_data, "purpose")),
        income |-> OrNum(extracted_income, GetOpt(collected_data, "income"))]

\* _handle_loan_process, lines 805-853: store the outcome of apply_for_loan
LoanStore(w, slots, applied, t) ==
    LET loan_result == applied.result
        wl == [w EXCEPT !.loans = applied.loans, !.loan_result = <<loan_result>>,
                        !.loan_args = <<[amount |-> slots.amount, purpose |-> slots.purpose,
                                         income |-> slots.income]>>]
        current_state == w.state
    IN IF loan_result.status \in {"info", "success"}
       THEN IF loan_result.requires_continuation
            THEN update_history(Reply(
                    Save(wl, Put(current_state, "multi_step_process",
                                 LoanProcessRecord(loan_result, FALSE))),
                    "loan_next_step"))
            ELSE IF loan_result.process_complete
            THEN update_history(Reply(
                    Save(wl, Put(Del(current_state, "multi_step_process"),
                                 "last_completed_action",
                                 [type |-> "loan_application",
                                  application_id |-> loan_result.application[1].application_id,
                                  timestamp |-> t])),
                    "loan_submitted"))
            ELSE update_history(Reply(wl, "loan_message"))
       ELSE update_history(Reply(wl, "loan_error"))

\* _handle_loan_process, lines 801-803: apply_for_loan with the slots of the turn
LoanApply(w, user_id, slots, t) ==
    IF slots.raised THEN Raise(w)
    ELSE LoanStore(w, slots,
                   apply_for_loan_data(w.loans, user_id, slots.amount, slots.purpose,
                                       slots.income, FALSE),
                   t)

\* _handle_loan_process, lines 733-853: the ordinary step of the loan dialogue
LoanStep(w, user_id, message, loan_process, t) ==
    LoanApply(w, user_id, LoanSlots(message, loan_process), t)

\* _handle_loan_process, lines 674-691 and 714-731: store the outcome of the
\* forced-fresh apply_for_loan; otherwise is the ordinary step the code falls
\* through to when the answer is neither info nor success
LoanFreshStore(w, current_state, applied, otherwise) ==
    LET loan_result == applied.result
        wl == [w EXCEPT !.loan_result = <<loan_result>>,
                        !.loan_args = <<[amount |-> <<>>, purpose |-> <<>>, income |-> <<>>]>>]
    IN IF loan_result.status \in {"info", "success"}
       THEN IF loan_result.requires_continuation
            THEN update_history(Reply(
                    Save(wl, Put(current_state, "multi_step_process",
                                 LoanProcessRecord(loan_result, TRUE))),
                    "loan_next_step"))
            ELSE update_history(Reply(wl, "loan_next_step"))
       ELSE otherwise

\* a forced-fresh start that first appends a snapshot of the discarded process
LoanFreshSuspending(w, current_state, user_id, message, loan_process, t) ==
    LoanFreshStore(w,
                   Put(current_state, "suspended_processes",
                       Append(GetSeq(current_state, "suspended_processes"),
                              [context |-> "loan_application", timestamp |-> t,
                               multi_step_process |-> loan_process,
                               original_context |-> GetStr(loan_process, "type"),
                               completion_percentage |-> _calculate_process_completion(loan_process)])),
                   apply_for_loan_data(w.loans, user_id, <<>>, <<>>, <<>>, TRUE),
                   LoanStep(w, user_id, message, loan_process, t))

\* _handle_loan_process, lines 671-691 and 711-731: start a forced-fresh
\* application from the local copy current_state
LoanFresh(w, current_state, user_id, message, loan_process, t) ==
    LoanFreshStore(w, current_state,
                   apply_for_loan_data(w.loans, user_id, <<>>, <<>>, <<>>, TRUE),
                   LoanStep(w, user_id, message, loan_process, t))

NotLoan(suspended_processes) ==
    SelectSeq(suspended_processes,
              LAMBDA p : GetStr(p.multi_step_process, "type") # "loan_application")

\* ConversationalAgent._handle_loan_process
_handle_loan_process(w0, user_id, message, loan_process, t) ==
    LET w == Enter(w0, "loan_process")
        message_lower == lower(message)
        current_state == w.state
        suspended_processes == GetSeq(current_state, "suspended_processes")
        suspended_loan == LastSuspendedLoan(suspended_processes)
        resume_choice == GetDict(current_state, "loan_resume_choice")
    IN IF /\ suspended_loan # <<>>
          /\ is_resume_request(message_lower)
          /\ GetStr(loan_process, "type") = "None"
          /\ suspended_loan[1].completion_percentage > 0
       THEN \* ask whether to continue or to start new
            update_history(Reply(
                Save(w, Put(current_state, "loan_resume_choice",
                            [suspended_process |-> suspended_loan[1].multi_step_process,
                             message_shown |-> TRUE])),
                "loan_resume_question"))
       ELSE IF "message_shown" \in DOMAIN resume_choice /\ resume_choice["message_shown"]
       THEN IF In("continue", message_lower)
            THEN update_history(Reply(
                    Save(w, Put(Put(Del(current_state, "loan_resume_choice"),
                                    "multi_step_process", resume_choice["suspended_process"]),
                                "suspended_processes", NotLoan(suspended_processes))),
                    "loan_resumed"))
            ELSE IF AnyIn({"start new", "new", "fresh", "different"}, message_lower)
            THEN LET cleared == Put(Del(current_state, "loan_resume_choice"),
                                    "suspended_processes", NotLoan(suspended_processes))
                 IN LoanFresh(Save(w, cleared), cleared, user_id, message, loan_process, t)
            ELSE Reply(w, "loan_resume_question_again")
       ELSE IF /\ is_new_loan_request(message_lower)
               /\ GetStr(loan_process, "type") = "loan_application"
               /\ DOMAIN resume_choice = {}
       THEN LET cleared == Del(current_state, "multi_step_process")
            IN LoanFresh(Save(w, cleared), cleared, user_id, message, loan_process, t)
       ELSE LoanStep(w, user_id, message, loan_process, t)

\* ------------------------------------------------------ pending selections
\* "Clear pending action": the local copy without the key, written with update_state
ClearPendingAction(w) == Save(w, Del(w.state, "pending_action"))

\* ConversationalAgent._handle_card_blocking_selection
_handle_card_blocking_selection(w0, user_id, message, pending_action, t) ==
    LET w == Enter(w0, "card_blocking_selection")
        card_id == card_match(lower(message))
    IN IF card_id # <<>>
       THEN LET blocked == block_card_data(w.cards, user_id, card_id[1], t)
                wb == [w EXCEPT !.cards = blocked.cards,
                                !.block_result = <<[card_id |-> card_id[1], result |-> blocked.result]>>]
                note == _get_context_switch_message(wb)
            IN update_history(ReplyNote(ClearPendingAction(wb),
                    IF blocked.result.status = "success" THEN "card_blocked" ELSE "card_not_blocked",
                    note))
       ELSE Reply(w, "select_valid_card")

\* ConversationalAgent._handle_new_card_application_selection and
\* _handle_card_application_selection, which differ in the tool name they store
CardApplicationSelection(w, user_id, message, pending_action, tool) ==
    LET current_step == GetStr(pending_action, "step")
        message_lower == lower(message)
        selected_type == IF AnyIn({"credit_card", "credit", "option 1"}, message_lower)
                         THEN <<"credit_card">>
                         ELSE IF AnyIn({"debit_card", "debit", "option 2"}, message_lower)
                         THEN <<"debit_card">> ELSE <<>>
        selected_brand == IF AnyIn({"visa", "option 1"}, message_lower) THEN <<"visa">>
                          ELSE IF AnyIn({"mastercard", "option 2"}, message_lower) THEN <<"mastercard">>
                          ELSE IF AnyIn({"rupay", "option 3"}, message_lower) THEN <<"rupay">>
                          ELSE <<>>
    IN IF current_step = "type_selection" /\ selected_type # <<>>
          /\ get_card_brand_options.requires_selection
       THEN ReplySelection(
                Save(w, [pending_action |->
                            [tool |-> tool, step |-> "brand_selection",
                             card_type |-> selected_type[1],
                             options |-> get_card_brand_options.options,
                             process_type |-> tool]]),
                "card_brand_menu", get_card_brand_options.options)
       ELSE IF current_step = "brand_selection" /\ selected_brand # <<>>
       THEN LET applied == apply_new_card_data(w.cards, user_id,
                                               GetStr(pending_action, "card_type"), selected_brand[1])
                wa == [w EXCEPT !.cards = applied.cards, !.card_apps = @ + applied.applications]
                note == _get_context_switch_message(wa)
            IN update_history(ReplyNote(ClearPendingAction(wa), "card_application_result", note))
       ELSE Reply(w, "select_valid_option")

_handle_new_card_application_selection(w0, user_id, message, pending_action) ==
    CardApplicationSelection(Enter(w0, "new_card_application_selection"),
                             user_id, message, pending_action, "new_card_application")

_handle_card_application_selection(w0, user_id, message, pending_action) ==
    CardApplicationSelection(Enter(w0, "card_application_selection"),
                             user_id, message, pending_action, "card_application")

\* ConversationalAgent._handle_card_management_selection
_handle_card_management_selection(w0, user_id, message, pending_action) ==
    LET w == Enter(w0, "card_management_selection")
        message_lower == lower(message)
        selected_option ==
            IF AnyIn({"block_card", "block card", "option 1"}, message_lower) THEN "block_card"
            ELSE IF AnyIn({"apply_new_card", "new card", "apply", "option 2"}, message_lower)
            THEN "apply_new_card"
            ELSE IF AnyIn({"modify_limit", "limit", "credit limit", "option 3"}, message_lower)
            THEN "modify_limit"
            ELSE "None"
        cards_result == get_user_cards(w.cards, user_id)
        limit_result == get_cards_for_limit_modification(w.cards, user_id)
    IN IF selected_option = "block_card" /\ cards_result.requires_selection
       THEN ReplySelection(
                Save(w, [pending_action |-> [tool |-> "block_card", options |-> cards_result.options]]),
                "select_card", cards_result.options)
       ELSE IF selected_option = "apply_new_card" /\ get_new_card_type_options.requires_selection
       THEN ReplySelection(
                Save(w, [pending_action |->
                            [tool |-> "card_application", step |-> "type_selection",
                             options |-> get_new_card_type_options.options,
                             process_type |-> "card_application"]]),
                "card_type_menu", get_new_card_type_options.options)
       ELSE IF selected_option = "modify_limit"
       THEN IF limit_result.requires_selection
            THEN ReplySelection(
                    Save(w, [pending_action |->
                                [tool |-> "limit_modification", step |-> "card_selection",
                                 options |-> limit_result.options,
                                 process_type |-> "limit_modification"]]),
                    "select_card_for_limit", limit_result.options)
            ELSE Reply(ClearPendingAction(w), "no_credit_cards")
       ELSE Reply(w, "select_valid_menu_option")

\* ConversationalAgent._handle_limit_modification_selection
_handle_limit_modification_selection(w0, user_id, message, pending_action) ==
    LET w == Enter(w0, "limit_modification_selection")
        card_id == card_match(lower(message))
        limit_info == get_current_limit_info(w.cards, user_id, card_id[1])
    IN IF GetStr(pending_action, "step") = "card_selection" /\ card_id # <<>>
          /\ limit_info.requires_continuation
       THEN update_history(Reply(
                Save(w, Del(Put(w.state, "multi_step_process",
                                [type |-> limit_info.process_type,
                                 current_step |-> limit_info.current_step,
                                 collected_data |-> limit_info.collected_data,
                                 card_id |-> card_id[1]]),
                            "pending_action")),
                "limit_info"))
       ELSE Reply(w, "select_valid_card")

\* ConversationalAgent._handle_pending_actions
_handle_pending_actions(w0, user_id, message, pending_action, t) ==
    LET w == Enter(w0, "pending_actions")
        action_type == GetStr(pending_action, "process_type")
    IN IF action_type = "card_management"
       THEN _handle_card_management_selection(w, user_id, message, pending_action)
       ELSE IF action_type = "new_card_application"
       THEN _handle_new_card_application_selection(w, user_id, message, pending_action)
       ELSE IF action_type = "card_application"
       THEN _handle_card_application_selection(w, user_id, message, pending_action)
       ELSE IF action_type = "limit_modification"
       THEN _handle_limit_modification_selection(w, user_id, message, pending_action)
       ELSE _handle_card_blocking_selection(w, user_id, message, pending_action, t)

\* ------------------------------------------------------ limit modification
\* ConversationalAgent._handle_limit_modification_process
_handle_limit_modification_process(w0, user_id, message, multi_step) ==
    LET w == Enter(w0, "limit_modification_process")
        new_limit == extract_amount(message)
        card_id == GetOpt(GetDict(multi_step, "collected_data"), "card_id")
        modified == modify_credit_limit_data(w.cards, user_id, card_id[1], new_limit[1])
        wm == [w EXCEPT !.cards = modified.cards]
    IN IF GetStr(multi_step, "current_step") # "new_limit" THEN Reply(w, "limit_unavailable")
       ELSE IF amount_match(message) = <<>> THEN Reply(w, "specify_new_limit")
       ELSE IF new_limit = <<>> THEN Reply(w, "enter_numeric_limit")
       ELSE IF card_id = <<>> THEN Reply(w, "card_information_not_found")
       ELSE IF modified.status = "success"
            THEN update_history(ReplyNote(
                    Save(wm, Del(wm.state, "multi_step_process")),
                    "limit_modified", _get_context_switch_message(wm)))
       ELSE Reply(wm, "limit_error")

\* ConversationalAgent._handle_multi_step_processes (the definition in force:
\* the second one of the class body)
_handle_multi_step_processes(w0, user_id, message, current_state, t) ==
    LET w == Enter(w0, "multi_step_processes")
        multi_step == GetDict(current_state, "multi_step_process")
        process_type == GetStr(multi_step, "type")
    IN IF process_type = "limit_modification"
       THEN _handle_limit_modification_process(w, user_id, message, multi_step)
       ELSE IF process_type = "loan_application"
       THEN _handle_loan_process(w, user_id, message, multi_step, t)
       ELSE Reply(w, "process_not_recognized")

\* ------------------------------------------------------ model-driven path
\* topic_keywords of ConversationalAgent._extract_topics, in dict order
topic_keywords ==
    << <<"loan", {"loan", "borrow", "credit", "mortgage", "financing"}>>,
       <<"card", {"card", "debit", "credit", "block", "lost", "stolen"}>>,
       <<"account", {"balance", "statement", "transaction", "account", "deposit"}>>,
       <<"transfer", {"transfer", "send", "payment", "wire"}>>,
       <<"information", {"rate", "fee", "policy", "information", "help"}>> >>

\* ConversationalAgent._extract_topics
_extract_topics(message) ==
    LET hit == SelectSeq(topic_keywords, LAMBDA tk : AnyIn(tk[2], lower(message)))
    IN [i \in 1..Len(hit) |-> hit[i][1]]

\* ConversationalAgent._analyze_context_switch
_analyze_context_switch(w, message) ==
    LET current_state == w.state
        current_topics == GetSeq(current_state, "active_topics")
        new_topics == _extract_topics(message)
    IN IF ~w.stored \/ DOMAIN current_state = {} THEN w
       ELSE IF new_topics # <<>>
               /\ ~\E i \in 1..Len(new_topics), j \in 1..Len(current_topics) :
                       new_topics[i] = current_topics[j]
            THEN Save(w, Put(Put(current_state, "context_switch",
                                 [from_topics |-> current_topics, to_topics |-> new_topics,
                                  switch_message |-> message]),
                             "active_topics", new_topics))
       ELSE w

\* ToolExecutor.tool_functions with the parameter names each function accepts
tool_functions ==
    [get_user_cards      |-> {"user_id"},
     block_card          |-> {"user_id", "card_id"},
     get_account_balance |-> {"user_id"},
     get_mini_statement  |-> {"user_id"},
     apply_for_loan      |-> {"user_id", "amount", "purpose", "income", "force_new"},
     get_loan_status     |-> {"user_id"},
     retrieve_knowledge  |-> {"query", "top_k"}]

\* the parameters of each function that have no default value
tool_required ==
    [get_user_cards      |-> {"user_id"},
     block_card          |-> {"user_id", "card_id"},
     get_account_balance |-> {"user_id"},
     get_mini_statement  |-> {"user_id"},
     apply_for_loan      |-> {"user_id"},
     get_loan_status     |-> {"user_id"},
     retrieve_knowledge  |-> {"query"}]

\* Python: tool_name.startswith(('get_', 'block_', 'apply_'))
HasUserPrefix(tool_name) ==
    \E prefix \in {"get_", "block_", "apply_"} :
        Len(tool_name) >= Len(prefix) /\ SubSeq(tool_name, 1, Len(prefix)) = prefix

\* ToolExecutor.execute called with keyword arguments named kwargs: the kind
\* of value it returns.  A call whose keywords the function does not accept
\* or that leaves a required parameter out raises TypeError inside the try and
\* becomes the error string.
execute(tool_name, kwargs) ==
    IF tool_name \notin DOMAIN tool_functions THEN "error_tool_not_found"
    ELSE LET passed == IF HasUserPrefix(tool_name) THEN kwargs \cup {"user_id"} ELSE kwargs
         IN IF passed \subseteq tool_functions[tool_name]
               /\ tool_required[tool_name] \subseteq passed
            THEN "tool_result"
            ELSE "error_executing_tool"

\* the decisions the completion service can return: free text or a tool call
\* (get_llm_response catches every exception of the service and returns text)
TextDecision == [has_tool_call |-> FALSE, name |-> "", arguments |-> {}]
LLMDecisions ==
    {TextDecision,
     [has_tool_call |-> TRUE, name |-> "get_user_cards", arguments |-> {}],
     [has_tool_call |-> TRUE, name |-> "card_management", arguments |-> {}],
     [has_tool_call |-> TRUE, name |-> "apply_for_loan", arguments |-> {"user_id", "amount"}]}

\* ConversationalAgent._handle_llm_failure
_handle_llm_failure(w0, message, current_state) ==
    LET w == Enter(w0, "llm_failure")
        message_lower == lower(message)
        loan_process == GetDict(current_state, "multi_step_process")
    IN update_history(Reply(w,
        IF GetStr(loan_process, "type") = "loan_application" THEN "fallback_loan_step"
        ELSE IF In("balance", message_lower) THEN "fallback_balance"
        ELSE IF In("card", message_lower) THEN "fallback_card"
        ELSE IF In("loan", message_lower) THEN "fallback_loan"
        ELSE "fallback_general"))

\* ConversationalAgent._handle_selection_process
_handle_selection_process(w, user_id, tool_call) ==
    LET options == get_user_cards(w.cards, user_id).options
    IN ReplySelection(
           Save(w, [pending_action |->
                       [tool |-> tool_call.name, options |-> options,
                        process_type |-> "selection"]]),
           "tool_message", options)

\* process_turn, lines 86-130: the model-driven path
ModelDriven(w0, user_id, message, current_state, llm_decision) ==
    LET w == _analyze_context_switch(Enter(w0, "model_driven"), message)
        \* _execute_tool_with_context: arguments plus session_id
        tool_args == llm_decision.arguments \cup {"session_id"}
        \* execute(user_id, tool_name, **tool_args) cannot bind its own parameters twice
        call_raises == tool_args \cap {"user_id", "tool_name"} # {}
        tool_result == execute(llm_decision.name, tool_args)
        wt == Save(w, Put(Put(w.state, "last_tool_used", llm_decision.name),
                          "last_tool_result", tool_result))
    IN IF ~llm_decision.has_tool_call
       THEN update_history(Reply(w, "llm_text"))
       ELSE IF call_raises
       THEN _handle_llm_failure(w, message, current_state)
       ELSE IF tool_result = "tool_result" /\ llm_decision.name = "get_user_cards"
       THEN update_history(_handle_selection_process(wt, user_id, llm_decision))
       ELSE IF tool_result = "tool_result" /\ llm_decision.name = "apply_for_loan"
       THEN \* requires_continuation: self._handle_multi_step_process is not defined
            _handle_llm_failure(wt, message, current_state)
       ELSE update_history(Reply(wt, "llm_rephrased_tool_result"))

\* ------------------------------------------------------------ intent router
is_account_details(message_lower) ==
    AnyIn({"account details", "account information", "complete account", "full account",
           "account overview", "my account details", "show account details"}, message_lower)

is_balance(message_lower) ==
    AnyIn({"balance", "account balance", "my balance", "show balance",
           "what's my balance", "whats my balance"}, message_lower)

is_transactions(message_lower) ==
    AnyIn({"transactions", "recent transactions", "mini statement", "statement",
           "transaction history"}, message_lower)

\* the card-management test with the phrase 'my card' added
is_card_management_loose(message_lower) ==
    AnyIn({"card management", "manage cards", "card services", "my card"}, message_lower)

is_card_management(message_lower) ==
    AnyIn({"card management", "manage cards", "card services"}, message_lower)

is_new_card_application(message_lower) ==
    AnyIn({"apply for new card", "new card application", "apply new card", "get new card"},
          message_lower)

is_direct_card_blocking(message_lower) ==
    /\ AnyIn({"block card", "block my card"}, message_lower)
    /\ ~AnyIn({"card management", "manage cards"}, message_lower)

is_card_list(message_lower) ==
    AnyIn({"my cards", "show cards", "list cards"}, message_lower)

is_loan_listing(message_lower) ==
    /\ AnyIn({"list loans", "list all loans", "show loans", "show all loans", "my loans",
              "list the loans", "show the loans", "loans i have applied", "loan applications",
              "applied for loans", "show my loan applications", "list my loan applications",
              "what loans do i have", "all my loans", "existing loans"}, message_lower)
    /\ ~AnyIn({"apply", "new loan", "apply for"}, message_lower)

is_loan_query(message_lower) ==
    AnyIn({"loan", "apply for loan", "new loan", "loan application", "borrow money",
           "need money", "apply loan"}, message_lower)

is_loan_topic(message, loan_process) ==
    LET is_loan_process_active == GetStr(loan_process, "type") = "loan_application"
    IN \/ is_loan_process_active
       \/ is_loan_query(lower(message))
       \/ (is_loan_process_active /\ is_numerical_response(strip(message)))

\* the if-chain of process_turn with the loan topic tested before the loan listing
RouteLoanFirst(message, current_state) ==
    LET message_lower == lower(message)
    IN IF is_account_details(message_lower) THEN "account_details"
       ELSE IF is_balance(message_lower) THEN "balance"
       ELSE IF is_transactions(message_lower) THEN "transactions"
       ELSE IF is_card_management(message_lower) THEN "card_management"
       ELSE IF is_new_card_application(message_lower) THEN "new_card_application"
       ELSE IF is_direct_card_blocking(message_lower) THEN "card_blocking"
       ELSE IF is_card_list(message_lower) THEN "cards"
       ELSE IF is_loan_topic(message, GetDict(current_state, "multi_step_process")) THEN "loan_process"
       ELSE IF is_loan_listing(message_lower) THEN "loan_listing"
       ELSE IF DOMAIN GetDict(current_state, "pending_action") # {} THEN "pending_actions"
       ELSE IF DOMAIN GetDict(current_state, "multi_step_process") # {} THEN "multi_step_processes"
       ELSE "model_driven"

\* process_turn, lines 23-80: the handler the if-chain selects
Route(message, current_state) ==
    LET message_lower == lower(message)
    IN IF is_account_details(message_lower) THEN "account_details"
       ELSE IF is_balance(message_lower) THEN "balance"
       ELSE IF is_transactions(message_lower) THEN "transactions"
       ELSE IF is_card_management(message_lower) THEN "card_management"
       ELSE IF is_new_card_application(message_lower) THEN "new_card_application"
       ELSE IF is_direct_card_blocking(message_lower) THEN "card_blocking"
       ELSE IF is_card_list(message_lower) THEN "cards"
       ELSE IF is_loan_listing(message_lower) THEN "loan_listing"
       ELSE IF is_loan_topic(message, GetDict(current_state, "multi_step_process")) THEN "loan_process"
       ELSE IF DOMAIN GetDict(current_state, "pending_action") # {} THEN "pending_actions"
       ELSE IF DOMAIN GetDict(current_state, "multi_step_process") # {} THEN "multi_step_processes"
       ELSE "model_driven"

\* ConversationalAgent.process_turn
process_turn(w, user_id, message, llm_decision, t) ==
    LET current_state == w.state
        loan_process == GetDict(current_state, "multi_step_process")
        pending_action == GetDict(current_state, "pending_action")
        route == Route(message, current_state)
    IN CASE route = "account_details" -> _handle_account_details_query(w, user_id, t)
         [] route = "balance" -> _handle_balance_query(w, user_id, t)
         [] route = "transactions" -> _handle_transaction_query(w, user_id, t)
         [] route = "card_management" -> _handle_card_management_query(w, user_id, t)
         [] route = "new_card_application" -> _handle_new_card_application(w, user_id, t)
         [] route = "card_blocking" -> _handle_direct_card_blocking(w, user_id, t)
         [] route = "cards" -> _handle_card_list_query(w, user_id, t)
         [] route = "loan_listing" -> _handle_loan_listing_query(w, user_id, t)
         [] route = "loan_process" -> _handle_loan_process(w, user_id, message, loan_process, t)
         [] route = "pending_actions" -> _handle_pending_actions(w, user_id, message, pending_action, t)
         [] route = "multi_step_processes" ->
                _handle_multi_step_processes(w, user_id, message, current_state, t)
         [] OTHER -> ModelDriven(w, user_id, message, current_state, llm_decision)

\* ------------------------------------------------------------ the sessions
\* the suspension round trip: loan started, amount answered, balance asked,
\* "continue loan" sent, as consecutive turns of a fresh session
NoScenario == [stage |-> "fresh", amount |-> 0]
OffScenario == [stage |-> "off", amount |-> 0]

ScenarioStep(sc, message, route, state_after) ==
    LET process == GetDict(state_after, "multi_step_process")
    IN IF sc.stage = "fresh" /\ route = "loan_process"
          /\ GetStr(process, "type") = "loan_application"
          /\ GetStr(process, "current_step") = "amount"
       THEN [stage |-> "started", amount |-> 0]
       ELSE IF sc.stage = "started" /\ is_numerical_response(strip(message))
               /\ bare_number(message) # <<>>
       THEN [stage |-> "amount_answered", amount |-> bare_number(message)[1]]
       ELSE IF sc.stage = "amount_answered" /\ route = "balance"
       THEN [stage |-> "balance_asked", amount |-> sc.amount]
       ELSE IF sc.stage = "balance_asked" /\ message = "continue loan"
       THEN [stage |-> "continued", amount |-> sc.amount]
       ELSE OffScenario

\* the state after construction: sample data inserted, no session row
\* the session ids of the requests when several sessions are followed
SessionIds == {"s1", "s2"}

Init ==
    /\ state = EmptyDict
    /\ stored = FALSE
    /\ calls = <<>>
    /\ cards = SampleCards
    /\ loans = SampleLoans
    /\ card_apps = 0
    /\ history_len = 0
    /\ now = 0
    /\ turn = NoTurn
    /\ scenario = NoScenario
    /\ in_turn = <<>>
    /\ in_update = <<>>
    /\ sessions = [s \in SessionIds |-> [state |-> EmptyDict, stored |-> FALSE]]
    /\ history = <<>>

\* the stores and the record of the turn after process_turn has returned w
TurnDone(w, message, route, llm_decision) ==
    /\ state' = w.state
    /\ stored' = w.stored
    /\ cards' = w.cards
    /\ loans' = w.loans
    /\ card_apps' = w.card_apps
    /\ history_len' = w.history_len
    /\ turn' = [message |-> message, route |-> route,
                handlers |-> w.handlers, raised |-> w.raised,
                response |-> w.response,
                process_before |-> GetDict(state, "multi_step_process"),
                pending_before |-> GetDict(state, "pending_action"),
                loan_result |-> w.loan_result, loan_args |-> w.loan_args,
                block_result |-> w.block_result, balance_result |-> w.balance_result,
                tool_call |-> llm_decision.name,
                tool_args |-> llm_decision.arguments]
    /\ scenario' = ScenarioStep(scenario, message, route, w.state)

\* One call of ConversationalAgent.process_turn for the session.
ProcessTurn ==
    /\ now < MaxTurns
    /\ \E message \in Messages :
       \E llm_decision \in (IF Route(message, state) = "model_driven"
                             THEN LLMDecisions ELSE {TextDecision}) :
           TurnDone(process_turn(World(state, stored, cards, loans, card_apps, history_len),
                                 USER, message, llm_decision, now + 1),
                    message, Route(message, state), llm_decision)
    /\ now' = now + 1
    /\ UNCHANGED <<calls, in_turn, in_update, sessions, history>>

Next == ProcessTurn

Spec == Init /\ [][Next]_vars

\* the session state store on its own: update_state and clear_state calls
NextStore == UpdateState \/ ClearState

SpecStore == Init /\ [][NextStore]_vars

\* the loan application function on its own.  The arguments are those of the
\* two calls _handle_loan_process makes: apply_for_loan(user_id, amount,
\* purpose, income) with each value None or a positive number (a purpose), and
\* apply_for_loan(user_id, force_new=True).  Amounts in cents: $100, $500,
\* $1,000, $1,500, $20,000; incomes $15,000 and $60,000.
LoanAmounts == {<<>>, <<10000>>, <<50000>>, <<100000>>, <<150000>>, <<2000000>>}
LoanPurposes == {<<>>, <<"Auto Purchase">>}
LoanIncomes == {<<>>, <<1500000>>, <<6000000>>}
LoanCalls ==
    {[amount |-> a, purpose |-> p, income |-> i, force_new |-> FALSE] :
        a \in LoanAmounts, p \in LoanPurposes, i \in LoanIncomes}
    \cup {[amount |-> <<>>, purpose |-> <<>>, income |-> <<>>, force_new |-> TRUE]}

\* the table and the record of the call after apply_for_loan has returned applied
LoanApplied(call, applied) ==
    /\ loans' = applied.loans
    /\ turn' = [NoTurn EXCEPT !.loan_result = <<applied.result>>,
                              !.loan_args = <<[amount |-> call.amount, purpose |-> call.purpose,
                                               income |-> call.income]>>]

\* One call of tools.banking_api.apply_for_loan for the sample user.
ApplyForLoan ==
    /\ Len(loans) < MaxLoans
    /\ \E call \in LoanCalls :
           LoanApplied(call, apply_for_loan_data(loans, USER, call.amount, call.purpose,
                                                 call.income, call.force_new))
    /\ UNCHANGED <<state, stored, calls, cards, card_apps, history_len, now, scenario, in_turn,
                   in_update, sessions, history>>

NextLoan == ApplyForLoan

SpecLoan == Init /\ [][NextLoan]_vars

\* ------------------------------------------------- the commits of a turn
\* the messages of the sessions whose commits are followed one by one
WriteMessages ==
    {"loan 5000 car", "i make 60000", "block my card", "card_001", "get new card",
     "option 1", "my balance", "Card Management"}

\* a turn that commits the session state and the history before the banking tables
WriteOrderStateFirst == <<"state", "domain">>

\* the order in which a handler commits: the banking tables (apply_for_loan,
\* block_card, apply_new_card, modify_credit_limit are called first), then
\* the session state (update_state) and the history (update_history)
WriteOrder == <<"domain", "state">>

\* process_turn is called: what it is going to write is determined by the
\* stores as they are now
BeginTurn ==
    /\ in_turn = <<>>
    /\ now < MaxTurns
    /\ \E message \in WriteMessages :
       \E llm_decision \in (IF Route(message, state) = "model_driven"
                             THEN LLMDecisions ELSE {TextDecision}) :
           in_turn' = <<[world |-> process_turn(World(state, stored, cards, loans,
                                                      card_apps, history_len),
                                                USER, message, llm_decision, now + 1),
                         message |-> message, route |-> Route(message, state),
                         llm_decision |-> llm_decision, committed |-> 0,
                         before |-> [state |-> state, cards |-> cards, loans |-> loans,
                                     card_apps |-> card_apps]]>>
    /\ UNCHANGED <<state, stored, calls, cards, loans, card_apps, history_len, now, turn,
                   scenario, in_update, sessions, history>>

\* the turn in progress commits its next write; with the last one it returns
Commit ==
    /\ in_turn # <<>>
    /\ LET t == in_turn[1]
           w == t.world
       IN IF t.committed + 1 = Len(WriteOrder)
          THEN /\ TurnDone(w, t.message, t.route, t.llm_decision)
               /\ now' = now + 1
               /\ in_turn' = <<>>
          ELSE /\ in_turn' = <<[t EXCEPT !.committed = @ + 1]>>
               /\ IF WriteOrder[t.committed + 1] = "domain"
                  THEN /\ cards' = w.cards
                       /\ loans' = w.loans
                       /\ card_apps' = w.card_apps
                       /\ UNCHANGED <<state, stored, history_len>>
                  ELSE /\ state' = w.state
                       /\ stored' = w.stored
                       /\ history_len' = w.history_len
                       /\ UNCHANGED <<cards, loans, card_apps>>
               /\ UNCHANGED <<now, turn, scenario>>
    /\ UNCHANGED <<calls, in_update, sessions, history>>

\* the process dies between two commits of the turn in progress
Crash ==
    /\ in_turn # <<>>
    /\ in_turn[1].committed >= 1
    /\ in_turn' = <<>>
    /\ now' = now + 1
    /\ turn' = [NoTurn EXCEPT !.message = in_turn[1].message, !.route = "crashed",
                              !.handlers = in_turn[1].world.handlers,
                              !.process_before =
                                    GetDict(in_turn[1].before.state, "multi_step_process"),
                              !.pending_before =
                                    GetDict(in_turn[1].before.state, "pending_action"),
                              !.loan_result = in_turn[1].world.loan_result,
                              !.block_result = in_turn[1].world.block_result]
    /\ scenario' = OffScenario
    /\ UNCHANGED <<state, stored, calls, cards, loans, card_apps, history_len, in_update,
                   sessions, history>>

NextWrites == BeginTurn \/ Commit \/ Crash

SpecWrites == Init /\ [][NextWrites]_vars

\* ------------------------------------------ update_state calls that overlap
\* StateManager.update_state is entered for the session by a turn
StartUpdate ==
    /\ Len(in_update) < MaxInflight
    /\ \E u \in Updates :
           in_update' = Append(in_update, [new_state_data |-> u, pc |-> "read",
                                           existing_state |-> EmptyDict])
    /\ UNCHANGED <<state, stored, calls, cards, loans, card_apps, history_len, now, turn,
                   scenario, in_turn, sessions, history>>

\* existing_state = self.get_state(session_id) or {}
ReadExisting ==
    /\ \E i \in 1..Len(in_update) :
        /\ in_update[i].pc = "read"
        /\ in_update' = [in_update EXCEPT
                            ![i].pc = "write",
                            ![i].existing_state =
                                IF get_state(state, stored) = <<>> THEN EmptyDict
                                ELSE get_state(state, stored)[1]]
    /\ UNCHANGED <<state, stored, calls, cards, loans, card_apps, history_len, now, turn,
                   scenario, in_turn, sessions, history>>

\* existing_state.update(new_state_data); INSERT OR REPLACE; commit
WriteMerged ==
    /\ \E i \in 1..Len(in_update) :
        /\ in_update[i].pc = "write"
        /\ state' = update_state(in_update[i].existing_state, in_update[i].new_state_data)
        /\ in_update' = [in_update EXCEPT ![i].pc = "done"]
    /\ stored' = TRUE
    /\ UNCHANGED <<calls, cards, loans, card_apps, history_len, now, turn, scenario, in_turn,
                   sessions, history>>

NextConcurrent == StartUpdate \/ ReadExisting \/ WriteMerged

SpecConcurrent == Init /\ [][NextConcurrent]_vars

\* ================================================================ properties
\* the active process of the Session State Document and its collected data
ActiveProcess(st) == GetDict(st, "multi_step_process")
IsLoanProcess(process) == GetStr(process, "type") = "loan_application"
Collected(process) == GetDict(process, "collected_data")
LoanSlotNames == {"amount", "purpose", "income"}

\* the last turn called apply_for_loan and got this result
LoanResult == turn.loan_result[1]
LoanArgs == turn.loan_args[1]

\* the last call of update_state that supplied key k
LastCallWith(k) ==
    CHOOSE i \in 1..Len(calls) :
        /\ k \in DOMAIN calls[i]
        /\ \A j \in (i + 1)..Len(calls) : k \notin DOMAIN calls[j]

\* C1: update_state is a shallow merge: after update_state calls U1..Un on a
\* fresh session the stored document is the top-level union of U1..Un, each
\* key holding the value of the last call that supplied it; in particular an
\* update that supplies only pending_action leaves a stored
\* multi_step_process unchanged.
C1_ShallowMerge ==
    /\ DOMAIN state = UNION {DOMAIN calls[i] : i \in 1..Len(calls)}
    /\ \A k \in DOMAIN state : state[k] = calls[LastCallWith(k)][k]
    /\ (/\ Len(calls) >= 2
        /\ DOMAIN calls[Len(calls)] = {"pending_action"}
        /\ \E i \in 1..(Len(calls) - 1) : "multi_step_process" \in DOMAIN calls[i])
       => /\ "multi_step_process" \in DOMAIN state
          /\ state["multi_step_process"] =
                calls[LastCallWith("multi_step_process")]["multi_step_process"]

\* a multi_step_process was stored, then an update supplied only pending_action
C1_Witness ==
    /\ Len(calls) >= 2
    /\ "multi_step_process" \in DOMAIN calls[1]
    /\ DOMAIN calls[Len(calls)] = {"pending_action"}
    /\ DOMAIN state = {"multi_step_process", "pending_action"}

\* C2: after a turn in which the loan application completes (apply_for_loan
\* answers success with process_complete) the stored session state has no
\* multi_step_process and has a last_completed_action of type
\* loan_application that carries a timestamp.
C2_CompletionClearsProcess ==
    (turn.loan_result # <<>> /\ LoanResult.status = "success" /\ LoanResult.process_complete)
    => /\ "multi_step_process" \notin DOMAIN state
       /\ "last_completed_action" \in DOMAIN state
       /\ state["last_completed_action"].type = "loan_application"
       /\ "timestamp" \in DOMAIN state["last_completed_action"]

\* the response texts of a selection that ended by executing its action
SelectionExecuted == {"card_blocked", "card_not_blocked", "card_application_result", "limit_info"}

\* C3: when a pending selection terminates by executing its action (card id
\* matched in the card-blocking selection, brand chosen in the new-card brand
\* selection, card chosen in the limit-modification selection) the session
\* state stored at the end of the turn has no pending_action.
C3_SelectionClearsPending ==
    (turn.route = "pending_actions" /\ turn.response # <<>>
     /\ turn.response[1].text \in SelectionExecuted)
    => "pending_action" \notin DOMAIN state

\* C4: suspension round trip: fresh session, loan application started, amount
\* step answered with A, balance query, then "continue loan": afterwards
\* multi_step_process is a loan application at step purpose whose collected
\* amount is A.
C4_RoundTrip ==
    scenario.stage = "continued"
    => /\ IsLoanProcess(ActiveProcess(state))
       /\ GetStr(ActiveProcess(state), "current_step") = "purpose"
       /\ GetOpt(Collected(ActiveProcess(state)), "amount") = <<scenario.amount>>

\* the round trip was completed with A = 15000
C4_Witness ==
    /\ scenario = [stage |-> "continued", amount |-> 1500000]
    /\ turn.message = "continue loan"
    /\ Len(GetSeq(state, "suspended_processes")) = 1

\* a message that asks for a fresh loan application
FreshStartRequest(message) == is_new_loan_request(lower(message))

\* C5: loan slot monotonicity: a slot (amount, purpose, income) that is
\* non-null in the collected data of the loan application is non-null after
\* every later turn of the process whose message is not a fresh-start request.
C5_SlotsMonotonic ==
    [][\A slot \in LoanSlotNames :
          (/\ IsLoanProcess(ActiveProcess(state))
           /\ slot \in DOMAIN Collected(ActiveProcess(state))
           /\ turn'.message \in Messages
           /\ ~FreshStartRequest(turn'.message))
          => (/\ IsLoanProcess(ActiveProcess(state'))
              /\ slot \in DOMAIN Collected(ActiveProcess(state')))]_vars

\* a later turn of a loan process that already held an amount added the purpose
C5_Witness ==
    /\ turn.route = "loan_process"
    /\ ~FreshStartRequest(turn.message)
    /\ IsLoanProcess(turn.process_before)
    /\ DOMAIN Collected(turn.process_before) = {"amount"}
    /\ DOMAIN Collected(ActiveProcess(state)) = {"amount", "purpose"}

\* C6: during a loan process a slot value already held in collected_data is
\* never replaced by a value extracted from a later message: in every turn
\* that is not a fresh start the amount and the purpose used for the
\* application are the previously collected ones.
C6_CollectedNotReplaced ==
    (/\ turn.route = "loan_process"
     /\ turn.loan_args # <<>>
     /\ IsLoanProcess(turn.process_before)
     /\ ~FreshStartRequest(turn.message))
    => \A slot \in {"amount", "purpose"} \cap DOMAIN Collected(turn.process_before) :
          LoanArgs[slot] = <<Collected(turn.process_before)[slot]>>

\* C7: bare numeric token: with the loan process at step income the message
\* '15000' is assigned to income and not to amount (the application is
\* evaluated with income 15000 and the amount collected earlier); with the
\* process at step amount '$15,000' is assigned to amount as 15000.
C7_BareNumber ==
    /\ (/\ turn.message = "15000"
        /\ IsLoanProcess(turn.process_before)
        /\ GetStr(turn.process_before, "current_step") = "income"
        /\ turn.loan_args # <<>>)
       => /\ LoanArgs.income = <<1500000>>
          /\ LoanArgs.amount = GetOpt(Collected(turn.process_before), "amount")
    /\ (/\ turn.message = "$15,000"
        /\ IsLoanProcess(turn.process_before)
        /\ GetStr(turn.process_before, "current_step") = "amount"
        /\ turn.loan_args # <<>>)
       => LoanArgs.amount = <<1500000>>

\* the lower-cased text of the last message
TurnText == lower(turn.message)

\* C8 as stated: a message containing 'card management' is never handled by
\* the direct card-blocking handler, and a message containing 'block my card'
\* but neither 'card management' nor 'manage cards' is never handled by the
\* card-management menu handler.
C8_AsStated ==
    turn.message \in Messages
    => /\ In("card management", TurnText) => "card_blocking" \notin turn.handlers
       /\ (In("block my card", TurnText)
           /\ ~AnyIn({"card management", "manage cards"}, TurnText))
          => "card_management" \notin turn.handlers

\* C8: a message containing 'card management' is never handled by the direct
\* card-blocking handler, and a message containing 'block my card' but none
\* of 'card management', 'manage cards' and 'card services' is never handled
\* by the card-management menu handler.
C8_Disambiguation ==
    turn.message \in Messages
    => /\ In("card management", TurnText) => "card_blocking" \notin turn.handlers
       /\ (In("block my card", TurnText)
           /\ ~AnyIn({"card management", "manage cards", "card services"}, TurnText))
          => "card_management" \notin turn.handlers

\* 'block my card' went to the card-blocking handler while a selection was pending
C8_Witness ==
    /\ turn.message = "block my card"
    /\ turn.handlers = {"card_blocking"}
    /\ turn.pending_before # EmptyDict

\* the rules of the router in the order of the cascade, each with its handler
RuleOrder ==
    <<"account_details", "balance", "transactions", "card_management",
      "new_card_application", "card_blocking", "cards", "loan_listing",
      "loan_process", "pending_actions", "multi_step_processes", "model_driven">>

RuleHandlers == {RuleOrder[i] : i \in 1..Len(RuleOrder)}

\* the predicate of a rule on a message and the state the turn started from
RuleHolds(rule, message, process, pending) ==
    CASE rule = "account_details" -> is_account_details(lower(message))
      [] rule = "balance" -> is_balance(lower(message))
      [] rule = "transactions" -> is_transactions(lower(message))
      [] rule = "card_management" -> is_card_management(lower(message))
      [] rule = "new_card_application" -> is_new_card_application(lower(message))
      [] rule = "card_blocking" -> is_direct_card_blocking(lower(message))
      [] rule = "cards" -> is_card_list(lower(message))
      [] rule = "loan_listing" -> is_loan_listing(lower(message))
      [] rule = "loan_process" -> IsLoanProcess(process) \/ is_loan_query(lower(message))
      [] rule = "pending_actions" -> pending # EmptyDict
      [] rule = "multi_step_processes" -> process # EmptyDict
      [] rule = "model_driven" -> TRUE

FirstRule(message, process, pending) ==
    RuleOrder[CHOOSE i \in 1..Len(RuleOrder) :
                /\ RuleHolds(RuleOrder[i], message, process, pending)
                /\ \A j \in 1..(i - 1) : ~RuleHolds(RuleOrder[j], message, process, pending)]

\* C9: router priority cascade: in every turn exactly one rule fires, the
\* first whose predicate holds in the order account details, balance,
\* transactions, card-management menu, new-card application, direct
\* card-blocking, card list, loan listing, loan topic, pending_action,
\* multi_step_process, model-driven fallback; no handler of another rule runs.
C9_Cascade ==
    turn.message \in Messages
    => turn.handlers \cap RuleHandlers =
          {FirstRule(turn.message, turn.process_before, turn.pending_before)}

\* a message with a loan phrase, sent while a loan process was active, was
\* handled by the loan listing and by no other rule
C9_Witness ==
    /\ turn.message = "my loans"
    /\ turn.handlers = {"loan_listing"}
    /\ IsLoanProcess(turn.process_before)

\* C10: every call of process_turn ends with exactly one ChatResponse, for
\* every message and session state; no exception reaches the caller.
C10_OneResponse ==
    turn.message \in Messages => (~turn.raised /\ Len(turn.response) = 1)

\* the fields of the record each workflow writes into multi_step_process
LoanRecordFields == {"type", "current_step", "collected_data", "next_step", "is_new_application"}
LimitRecordFields == {"type", "current_step", "collected_data", "card_id"}

\* C11: at most one active process: the session state holds at most one
\* multi_step_process record, the record of exactly one workflow: it is a
\* loan_application record or a limit_modification record and carries nothing
\* of the other workflow, so two unfinished workflows of different types are
\* never active in the same session at the same time.
C11_AtMostOneProcess ==
    ActiveProcess(state) # EmptyDict
    => \/ /\ GetStr(ActiveProcess(state), "type") = "loan_application"
          /\ DOMAIN ActiveProcess(state) \subseteq LoanRecordFields
          /\ DOMAIN Collected(ActiveProcess(state)) \subseteq LoanSlotNames
       \/ /\ GetStr(ActiveProcess(state), "type") = "limit_modification"
          /\ DOMAIN ActiveProcess(state) = LimitRecordFields
          /\ DOMAIN Collected(ActiveProcess(state)) = {"card_id", "current_limit"}

\* a loan application was started while a limit modification was unfinished
C11_Witness ==
    /\ GetStr(turn.process_before, "type") = "limit_modification"
    /\ GetStr(turn.process_before, "current_step") = "new_limit"
    /\ IsLoanProcess(ActiveProcess(state))
    /\ turn.route = "loan_process"

\* the last turn asked block_card for this card and got this result
BlockResult == turn.block_result[1].result
BlockedCard == turn.block_result[1].card_id

\* C12: blocking a card whose status is already 'blocked' returns status
\* 'warning' (never 'success', no confirmation code) and leaves the card's
\* status and blocked_date unchanged, for any number of repeated requests.
C12_BlockedCardWarning ==
    [][(/\ turn'.block_result # <<>>
        /\ now' = now + 1
        /\ get_card(cards, turn'.block_result[1].card_id) # <<>>
        /\ get_card(cards, turn'.block_result[1].card_id)[1].status = "blocked")
       => /\ turn'.block_result[1].result.status = "warning"
          /\ ~turn'.block_result[1].result.confirmation_code
          /\ cards' = cards
          /\ get_card(cards', turn'.block_result[1].card_id)[1].status = "blocked"
          /\ get_card(cards', turn'.block_result[1].card_id)[1].blocked_date =
                get_card(cards, turn'.block_result[1].card_id)[1].blocked_date]_vars

\* a card blocked in an earlier turn of the session was asked to be blocked
\* again and kept the date of its blocking
C12_Witness ==
    /\ turn.block_result # <<>>
    /\ BlockResult.status = "warning"
    /\ BlockedCard = "card_001"
    /\ get_card(cards, "card_001")[1].status = "blocked"
    /\ get_card(cards, "card_001")[1].blocked_date # <<now>>

\* C13: idempotent re-query: two consecutive 'my balance' turns of a session
\* return structurally identical success responses: the same text and the same
\* account figures, requires_selection false and no options.
C13_IdempotentBalance ==
    [][(turn.message = "my balance" /\ turn'.message = "my balance")
       => /\ turn'.response = turn.response
          /\ turn'.balance_result = turn.balance_result
          /\ Len(turn'.response) = 1
          /\ turn'.balance_result[1].status = "success"
          /\ ~turn'.response[1].requires_selection
          /\ turn'.response[1].options = <<>>]_vars

\* the balance was asked twice in a row while a loan application was in
\* progress, so both answers carry the resumption note
C13_Witness ==
    /\ turn.message = "my balance"
    /\ turn.response # <<>>
    /\ turn.response[1].note # ""
    /\ Len(GetSeq(state, "suspended_processes")) = 2
    /\ \A i \in 1..2 : GetSeq(state, "suspended_processes")[i].context = "balance"

\* (amount * 12) / income < tenths / 10, in exact arithmetic
RatioBelow(amount, income, tenths) == amount * 12 * 10 < tenths * income

\* C14: interest-rate banding: when amount, purpose and income are all
\* supplied, apply_for_loan computes ratio = (amount * 12) / income and sets
\* the rate to 5.2 if ratio < 0.10, 6.5 if ratio < 0.20, 8.2 if ratio < 0.30,
\* otherwise 10.5, with a 60-month term; for amount 20000 and income 60000
\* the ratio is 4.0 and the rate is 10.5.
C14_RateBanding ==
    (/\ turn.loan_args # <<>>
     /\ LoanArgs.amount # <<>> /\ LoanArgs.purpose # <<>> /\ LoanArgs.income # <<>>)
    => /\ LoanResult.status = "success"
       /\ LoanResult.application # <<>>
       /\ LoanResult.application[1].interest_rate =
             (IF RatioBelow(LoanArgs.amount[1], LoanArgs.income[1], 1) THEN 52
              ELSE IF RatioBelow(LoanArgs.amount[1], LoanArgs.income[1], 2) THEN 65
              ELSE IF RatioBelow(LoanArgs.amount[1], LoanArgs.income[1], 3) THEN 82
              ELSE 105)
       /\ LoanResult.application[1].term_months = 60
       /\ (LoanArgs.amount = <<2000000>> /\ LoanArgs.income = <<6000000>>)
          => /\ LoanArgs.amount[1] * 12 = 4 * LoanArgs.income[1]
             /\ LoanResult.application[1].interest_rate = 105

\* the second application of the user: $20,000 for a car on an income of $60,000
C14_Witness ==
    /\ turn.loan_args # <<>>
    /\ LoanArgs = [amount |-> <<2000000>>, purpose |-> <<"Auto Purchase">>, income |-> <<6000000>>]
    /\ LoanResult.application # <<>>
    /\ LoanResult.application[1].interest_rate = 105
    /\ Len(loans) = 2

\* C15: session state lifecycle: get_state returns None for a session that
\* was never written; after update_state(s, d) on such a session the call
\* returns d (the document it stores) and get_state(s) returns d; after
\* clear_state(s), get_state(s) returns None again.
C15_Lifecycle ==
    /\ ~stored => get_state(state, stored) = <<>>
    /\ (stored /\ Len(calls) = 1) => get_state(state, stored) = <<calls[1]>>
    /\ Len(calls) >= 1 => stored

\* the first update_state of a session stored a document with both reserved keys
C15_Witness ==
    /\ stored
    /\ Len(calls) = 1
    /\ DOMAIN calls[1] = {"pending_action", "multi_step_process"}
    /\ get_state(state, stored) = <<calls[1]>>

\* the positions of the cards table that hold cards of the user
CardsOf(user_id) == {i \in 1..Len(cards) : cards[i].user_id = user_id}

\* C16: get_user_cards for a user who has cards returns requires_selection =
\* true and an options list with exactly one option per card of that user,
\* each option id being that card's card_id.
C16_OptionPerCard ==
    (turn.route = "card_blocking" /\ CardsOf(USER) # {})
    => /\ Len(turn.response) = 1
       /\ turn.response[1].requires_selection
       /\ Len(turn.response[1].options) = Cardinality(CardsOf(USER))
       /\ \A i \in CardsOf(USER) :
             Cardinality({j \in 1..Len(turn.response[1].options) :
                             turn.response[1].options[j] = cards[i].card_id}) = 1

\* the cards were listed for blocking after a sixth card had been issued
\* and while one card was blocked
C16_Witness ==
    /\ turn.route = "card_blocking"
    /\ Len(turn.response) = 1
    /\ Len(turn.response[1].options) = 6
    /\ \E i \in CardsOf(USER) : cards[i].status = "blocked"

\* the record of an active limit modification waiting for its new limit
AtNewLimit(process) ==
    /\ GetStr(process, "type") = "limit_modification"
    /\ GetStr(process, "current_step") = "new_limit"

\* C17: limit-modification progress: after the user picked a card in the
\* limit-modification selection (multi_step_process is limit_modification at
\* step new_limit), the next message that carries a dollar figure and matches
\* no direct trigger is handled by the new_limit step, which invokes
\* modify_credit_limit with the bound card_id and that figure.
C17_LimitProgress ==
    (/\ AtNewLimit(turn.process_before)
     /\ is_numerical_response(strip(turn.message))
     /\ extract_amount(turn.message) # <<>>
     /\ turn.route \in {"pending_actions", "multi_step_processes", "model_driven"})
    => /\ "limit_modification_process" \in turn.handlers
       /\ Len(turn.response) = 1
       /\ turn.response[1].text \in {"limit_modified", "limit_error"}

\* the most recent loan snapshot of suspended_processes in the stored state
SuspendedLoan == LastSuspendedLoan(GetSeq(state, "suspended_processes"))

\* no process is active: none is stored, or the stored one is the loan
\* application that the last turn completed
NoActiveProcess ==
    \/ ActiveProcess(state) = EmptyDict
    \/ /\ turn.loan_result # <<>>
       /\ LoanResult.status = "success"
       /\ LoanResult.process_complete

\* C18: resume offer: whenever suspended_processes contains a loan snapshot,
\* no multi_step_process is active and the user sends a message signalling
\* loan intent, the turn does not resume or start an application; it asks
\* 'continue' or 'start new' and persists loan_resume_choice with the
\* snapshot and message_shown = true.
C18_ResumeOffer ==
    [][(/\ SuspendedLoan # <<>>
        /\ NoActiveProcess
        /\ now' = now + 1
        /\ is_loan_query(lower(turn'.message))
        /\ turn'.route = "loan_process")
       => /\ Len(turn'.response) = 1
          /\ turn'.response[1].text = "loan_resume_question"
          /\ turn'.loan_result = <<>>
          /\ GetDict(state', "loan_resume_choice")
                = [suspended_process |-> SuspendedLoan[1].multi_step_process,
                   message_shown |-> TRUE]]_vars

\* the suspended_processes list of a Session State Document
Suspended(st) == GetSeq(st, "suspended_processes")

\* C22: fresh start while active: when a loan process is active, no resume
\* dialogue is pending and the message handled by the loan engine contains an
\* explicit new-loan phrase, after the turn multi_step_process is a fresh loan
\* application (current_step = amount, empty collected_data) and
\* suspended_processes is unchanged.
C22_FreshStart ==
    [][(/\ IsLoanProcess(ActiveProcess(state))
        /\ "loan_resume_choice" \notin DOMAIN state
        /\ now' = now + 1
        /\ is_new_loan_request(lower(turn'.message))
        /\ turn'.route = "loan_process")
       => /\ IsLoanProcess(ActiveProcess(state'))
          /\ GetStr(ActiveProcess(state'), "current_step") = "amount"
          /\ Collected(ActiveProcess(state')) = EmptyDict
          /\ Suspended(state') = Suspended(state)]_vars

\* a new-loan phrase discarded a loan application that had collected slots
\* while a snapshot was in suspended_processes
C22_Witness ==
    /\ turn.route = "loan_process"
    /\ is_new_loan_request(lower(turn.message))
    /\ IsLoanProcess(turn.process_before)
    /\ Collected(turn.process_before) # EmptyDict
    /\ GetStr(ActiveProcess(state), "current_step") = "amount"
    /\ Collected(ActiveProcess(state)) = EmptyDict
    /\ Len(Suspended(state)) = 1

\* the routes of the direct handlers
DirectRoutes ==
    {"account_details", "balance", "transactions", "card_management",
     "new_card_application", "card_blocking", "cards", "loan_listing"}

\* completion_percentage (in thousandths of a percent) of a suspended record
\* is in 0..100 and is (slots / 3) * 100 for a loan application, 0 otherwise
CompletionAsStated(record) ==
    LET slots == Cardinality(DOMAIN Collected(record.multi_step_process))
        c == record.completion_percentage
    IN /\ c \in 0..100000
       /\ IF IsLoanProcess(record.multi_step_process)
          THEN 3 * c <= slots * 100000 /\ slots * 100000 < 3 * (c + 1)
          ELSE c = 0

\* C23: context-switch save: every direct handler turn entered while
\* multi_step_process is present appends exactly one record to
\* suspended_processes holding a copy of that process, sets context_switched
\* and leaves earlier records untouched; every record's completion_percentage
\* is in 0..100 and equals (non-null slots / 3) * 100 for a loan application
\* and 0 for any other type.
C23_ContextSwitchSave ==
    [][/\ (/\ now' = now + 1
           /\ turn'.route \in DirectRoutes
           /\ ActiveProcess(state) # EmptyDict)
          => /\ Len(Suspended(state')) = Len(Suspended(state)) + 1
             /\ SubSeq(Suspended(state'), 1, Len(Suspended(state))) = Suspended(state)
             /\ Suspended(state')[Len(Suspended(state'))].multi_step_process
                    = ActiveProcess(state)
             /\ "context_switched" \in DOMAIN state'
             /\ state'["context_switched"] = TRUE
       /\ \A i \in 1..Len(Suspended(state')) : CompletionAsStated(Suspended(state')[i])]_vars

\* a second direct handler turn appended a second snapshot of a loan
\* application that holds two of its three slots
C23_Witness ==
    /\ turn.route \in DirectRoutes
    /\ IsLoanProcess(turn.process_before)
    /\ Len(Suspended(state)) = 2
    /\ Suspended(state)[2].multi_step_process = turn.process_before
    /\ Suspended(state)[2].completion_percentage = 66666
    /\ Suspended(state)[1].context # Suspended(state)[2].context

\* the ordinal phrasing of the i-th option of a menu
OrdinalPhrase == <<"option 1", "option 2", "option 3", "option 4", "option 5", "option 6">>

\* the message names an option of the list: it contains the option's id or
\* the ordinal phrase of its position
OptionNamed(message, options) ==
    \E i \in 1..Len(options) :
        \/ In(options[i], lower(message))
        \/ i <= Len(OrdinalPhrase) /\ In(OrdinalPhrase[i], lower(message))

\* the options of the pending_action stored in the session state
PendingOptions(st) == GetSeq(GetDict(st, "pending_action"), "options")

\* C24: unrecognized selection leaves state alone: when a pending_action
\* exists and the message matches none of its options, the turn changes
\* neither the session state document nor the conversation history, and
\* performs no banking write.
C24_UnrecognizedLeavesState ==
    [][(/\ now' = now + 1
        /\ turn'.route = "pending_actions"
        /\ ~OptionNamed(turn'.message, PendingOptions(state)))
       => /\ state' = state
          /\ history_len' = history_len
          /\ cards' = cards
          /\ loans' = loans
          /\ card_apps' = card_apps]_vars

\* C25: when the message matches no option of the pending selection, the
\* response re-prompts with the same options: it has requires_selection =
\* true and an options list equal to pending_action.options.
C25_RepromptSameOptions ==
    (/\ turn.route = "pending_actions"
     /\ ~OptionNamed(turn.message, GetSeq(turn.pending_before, "options")))
    => /\ Len(turn.response) = 1
       /\ turn.response[1].requires_selection
       /\ turn.response[1].options = GetSeq(turn.pending_before, "options")

\* the selection handler that _handle_pending_actions picks for a pending_action
SelectionHandler(pending_action) ==
    LET action_type == GetStr(pending_action, "process_type")
    IN CASE action_type = "card_management" -> "card_management_selection"
         [] action_type = "new_card_application" -> "new_card_application_selection"
         [] action_type = "card_application" -> "card_application_selection"
         [] action_type = "limit_modification" -> "limit_modification_selection"
         [] OTHER -> "card_blocking_selection"

\* C26: whenever a selection menu was presented in the previous turn
\* (pending_action stored), a reply that names one of its options and matches
\* no direct trigger is dispatched to the Pending-Selection Engine for
\* pending_action.process_type; this also holds when a loan application was
\* in progress before the menu was requested.
C26_SelectionDispatched ==
    [][(/\ now' = now + 1
        /\ Len(turn.response) = 1
        /\ turn.response[1].requires_selection
        /\ PendingOptions(state) = turn.response[1].options
        /\ OptionNamed(turn'.message, PendingOptions(state))
        /\ turn'.route \notin DirectRoutes
        /\ ~is_loan_query(lower(turn'.message)))
       => /\ turn'.route = "pending_actions"
          /\ SelectionHandler(GetDict(state, "pending_action")) \in turn'.handlers]_vars

\* the card id that the limit-modification selection of the last turn passed
\* to get_limit_info, if it called it
LimitInfoCard ==
    IF /\ "limit_modification_selection" \in turn.handlers
       /\ GetStr(turn.pending_before, "step") = "card_selection"
    THEN card_match(lower(turn.message))
    ELSE <<>>

\* the entries of a sequence
Entries(seq) == {seq[i] : i \in 1..Len(seq)}

\* C27: a pending selection only acts on an option that was presented: in the
\* card-blocking and limit-modification selections, the card id passed to
\* block_card or get_limit_info is always the id of one of the entries of
\* pending_action.options.
C27_ActsOnPresentedOption ==
    /\ turn.block_result # <<>>
        => BlockedCard \in Entries(GetSeq(turn.pending_before, "options"))
    /\ LimitInfoCard # <<>>
        => LimitInfoCard[1] \in Entries(GetSeq(turn.pending_before, "options"))

\* the turn in progress writes to the banking tables
FinishesFlow(t) ==
    \/ t.world.cards # t.before.cards
    \/ t.world.loans # t.before.loans
    \/ t.world.card_apps # t.before.card_apps

\* the session state holds the record of a flow
RecordPresent(st) ==
    \/ ActiveProcess(st) # EmptyDict
    \/ GetDict(st, "pending_action") # EmptyDict

C29_NoLostKey ==
    (\A i \in 1..Len(in_update) : in_update[i].pc = "done")
    => \A i \in 1..Len(in_update) : DOMAIN in_update[i].new_state_data \subseteq DOMAIN state

\* C30: model-driven tool dispatch: when the completion service returns a
\* tool invocation for a tool of the executor's table, the data-access
\* function is run and its result drives the turn: a result with
\* requires_selection yields a response with requires_selection = true and the
\* result's options and stores pending_action naming that tool; a result with
\* requires_continuation yields the continuation prompt and stores the
\* process; any other result is rephrased as the final answer.
C30_ToolDispatch ==
    (turn.route = "model_driven" /\ turn.tool_call \in DOMAIN tool_functions)
    => /\ GetStr(state, "last_tool_result") = "tool_result"
       /\ Len(turn.response) = 1
       /\ turn.tool_call = "get_user_cards"
            => /\ turn.response[1].requires_selection
               /\ turn.response[1].options = get_user_cards(cards, USER).options
               /\ GetStr(GetDict(state, "pending_action"), "tool") = "get_user_cards"
       /\ turn.tool_call = "apply_for_loan"
            => /\ turn.response[1].text = "loan_next_step"
               /\ IsLoanProcess(ActiveProcess(state))
       /\ turn.tool_call \notin {"get_user_cards", "apply_for_loan"}
            => turn.response[1].text = "llm_rephrased_tool_result"

\* ------------------------------------------------ the tool layer on its own
\* a user id of a request that is not the sample user
OTHER_USER == "user456"

\* Python: p in s, on any text
py_in(p, s) == \E i \in 1..(Len(s) - Len(p) + 1) : SubSeq(s, i, i + Len(p) - 1) = p

\* the tool names a completion can carry: those of the executor's table and
\* card_management, a function of tools.banking_api that the table leaves out
ToolNames == DOMAIN tool_functions \cup {"card_management"}

\* the argument dicts a completion can carry
ToolArgs ==
    {EmptyDict,
     [card_id |-> "card_001"],
     [user_id |-> OTHER_USER],
     [user_id |-> OTHER_USER, card_id |-> "card_001"],
     [session_id |-> "s1"],
     [card_id |-> "card_001", session_id |-> "s1"],
     [query |-> "fees"],
     [amount |-> 150000, purpose |-> "Auto Purchase", income |-> 6000000]}

\* execute_call with a user_id of the tool arguments kept: the call binds and
\* the function receives the arguments as the completion gave them
execute_call_model_user(cs, ls, user_id, tool_name, tool_args, t) ==
    LET kwargs == IF HasUserPrefix(tool_name) /\ "user_id" \notin DOMAIN tool_args
                  THEN Put(tool_args, "user_id", user_id)
                  ELSE tool_args
        result == execute(tool_name, DOMAIN tool_args \ {"user_id"})
        ran == result = "tool_result"
    IN [op |-> "execute", user_id |-> user_id, tool_name |-> tool_name,
        tool_args |-> tool_args, raised |-> FALSE, result |-> result,
        called |-> IF ran THEN <<[function |-> tool_name, kwargs |-> kwargs]>> ELSE <<>>,
        cards |-> IF ran /\ tool_name = "block_card"
                  THEN block_card_data(cs, kwargs.user_id, kwargs.card_id, t).cards
                  ELSE cs,
        loans |-> IF ran /\ tool_name = "apply_for_loan"
                  THEN apply_for_loan_data(ls, kwargs.user_id, GetOpt(kwargs, "amount"),
                                           GetOpt(kwargs, "purpose"), GetOpt(kwargs, "income"),
                                           FALSE).loans
                  ELSE ls]

\* The call expression self.tool_executor.execute(user_id, tool_name, **tool_args):
\* whether it raises, the value it returns, the data-access function it ran
\* with the keyword arguments that function received, and the tables afterwards.
\* A key of tool_args that names a parameter of execute is bound twice and the
\* call raises TypeError before the body of execute runs.
execute_call(cs, ls, user_id, tool_name, tool_args, t) ==
    LET raised == DOMAIN tool_args \cap {"user_id", "tool_name"} # {}
        kwargs == IF HasUserPrefix(tool_name) THEN Put(tool_args, "user_id", user_id)
                  ELSE tool_args
        result == execute(tool_name, DOMAIN tool_args)
        ran == ~raised /\ result = "tool_result"
    IN [op |-> "execute", user_id |-> user_id, tool_name |-> tool_name,
        tool_args |-> tool_args, raised |-> raised,
        result |-> IF raised THEN "None" ELSE result,
        called |-> IF ran THEN <<[function |-> tool_name, kwargs |-> kwargs]>> ELSE <<>>,
        cards |-> IF ran /\ tool_name = "block_card"
                  THEN block_card_data(cs, kwargs.user_id, kwargs.card_id, t).cards
                  ELSE cs,
        loans |-> IF ran /\ tool_name = "apply_for_loan"
                  THEN apply_for_loan_data(ls, kwargs.user_id, GetOpt(kwargs, "amount"),
                                           GetOpt(kwargs, "purpose"), GetOpt(kwargs, "income"),
                                           FALSE).loans
                  ELSE ls]

\* json.dumps(tool_result): the error strings of execute, and the key names of
\* the dict each data-access function returns
json_dumps(tool_name, result) ==
    IF result = "error_tool_not_found" THEN "Error: Tool '" \o tool_name \o "' not found."
    ELSE IF result = "error_executing_tool"
    THEN "Error executing tool '" \o tool_name \o "': TypeError"
    ELSE CASE tool_name = "get_account_balance"
                -> "status current_balance credit_cards_summary"
           [] tool_name = "get_mini_statement"
                -> "status statement_period card_used current_balance"
           [] tool_name = "block_card" -> "status message card_details"
           [] tool_name = "get_user_cards" -> "status message"
           [] tool_name = "apply_for_loan" -> "status message process_type loan_application"
           [] tool_name = "get_loan_status" -> "status loans"
           [] OTHER -> "status results summary"

\* Python: word in prompt.lower(), for a prompt given as the sequence of its
\* parts (the fixed text between the parts holds none of the words looked for)
in_prompt(word, prompt) == \E i \in 1..Len(prompt) : py_in(word, py_lower(prompt[i]))

\* get_llm_response called without tools.  service is what the completion
\* service does: "completion" when it answers, "error" when the request fails
\* (or its answer has no text).  Every exception is caught and answered with
\* a text chosen from the words of the prompt, so the call itself never raises.
get_llm_response(prompt, service) ==
    [raised |-> FALSE,
     text |-> IF service = "completion" THEN "llm_rephrased_tool_result"
              ELSE IF in_prompt("loan", prompt) THEN "provider_fallback_loan"
              ELSE IF in_prompt("card", prompt) /\ in_prompt("block", prompt)
                   THEN "provider_fallback_block"
              ELSE IF in_prompt("balance", prompt) \/ in_prompt("statement", prompt)
                   THEN "provider_fallback_account"
              ELSE "provider_fallback_general"]

\* ConversationalAgent._generate_contextual_response: the text it returns
_generate_contextual_response(tool_name, tool_result, user_message, service) ==
    LET context_prompt == <<tool_name, json_dumps(tool_name, tool_result), user_message>>
        final_response == get_llm_response(context_prompt, service)
    IN IF ~final_response.raised THEN final_response.text
       ELSE IF tool_name = "get_account_balance" THEN "template_balance"
       ELSE IF tool_name = "get_mini_statement" THEN "template_transactions"
       ELSE "template_completed"

\* the messages that reach the model-driven path of a fresh session
RephraseMessages == {m \in Messages : Route(m, EmptyDict) = "model_driven"}

\* the tables and the record of the call after the call c of execute
Executed(c) ==
    /\ calls' = <<[op |-> c.op, user_id |-> c.user_id, tool_name |-> c.tool_name,
                   tool_args |-> c.tool_args, raised |-> c.raised,
                   result |-> c.result, called |-> c.called]>>
    /\ cards' = c.cards
    /\ loans' = c.loans

\* One call of ToolExecutor.execute, as _execute_tool_with_context makes it.
Execute ==
    /\ Len(loans) < MaxLoans
    /\ \E user_id \in {USER, OTHER_USER}, tool_name \in ToolNames, tool_args \in ToolArgs :
          Executed(execute_call(cards, loans, user_id, tool_name, tool_args, now + 1))
    /\ turn' = NoTurn
    /\ UNCHANGED <<state, stored, card_apps, history_len, now, scenario, in_turn, in_update,
                   sessions, history>>

\* The result of the last execute call is rephrased (process_turn, lines
\* 118-123): a result that is neither a selection nor a continuation.
Rephrase ==
    /\ Len(calls) = 1
    /\ ~calls[1].raised
    /\ ~(calls[1].result = "tool_result"
         /\ calls[1].tool_name \in {"get_user_cards", "apply_for_loan"})
    /\ \E user_message \in RephraseMessages, service \in {"completion", "error"} :
          /\ calls' = Append(calls, [op |-> "get_llm_response", service |-> service])
          /\ turn' = [NoTurn EXCEPT
                        !.message = user_message, !.route = "model_driven",
                        !.tool_call = calls[1].tool_name,
                        !.response = <<ChatResponse(
                            _generate_contextual_response(calls[1].tool_name, calls[1].result,
                                                          user_message, service),
                            "", FALSE, <<>>)>>]
    /\ UNCHANGED <<state, stored, cards, loans, card_apps, history_len, now, scenario, in_turn,
                   in_update, sessions, history>>

NextTools == Execute \/ Rephrase

SpecTools == Init /\ [][NextTools]_vars

\* the completion-service call that rephrased the tool result of the turn
RephraseCall == calls[2]

\* the canned sentence of a tool
CannedTemplate(tool_name) ==
    IF tool_name = "get_account_balance" THEN "template_balance"
    ELSE IF tool_name = "get_mini_statement" THEN "template_transactions"
    ELSE "template_completed"

\* C31: when the second completion-service call (rephrasing a tool result)
\* fails, the turn's response is the per-tool canned template: the balance
\* sentence for get_account_balance, the transactions sentence for
\* get_mini_statement, and the generic completion sentence for any other
\* tool; the completion service is not called again in that turn.
C31_CannedTemplate ==
    (Len(calls) = 2 /\ RephraseCall.service = "error")
    => /\ turn.response[1].text = CannedTemplate(turn.tool_call)
       /\ Cardinality({i \in 1..Len(calls) : calls[i].op = "get_llm_response"}) = 1

\* the last call of ToolExecutor.execute
ExecuteCall == calls[1]

\* C32: ToolExecutor.execute never raises: a tool name outside its dispatch
\* table returns the string "Error: Tool '<name>' not found." without calling
\* any data-access function, and an exception raised inside a tool returns a
\* string starting with "Error executing tool".
C32_ExecuteNeverRaises ==
    calls # <<>>
    => /\ ~ExecuteCall.raised
       /\ ExecuteCall.tool_name \notin DOMAIN tool_functions
            => ExecuteCall.result = "error_tool_not_found" /\ ExecuteCall.called = <<>>
       /\ (ExecuteCall.tool_name \in DOMAIN tool_functions /\ ExecuteCall.called = <<>>)
            => ExecuteCall.result = "error_executing_tool"

\* the tools of the table whose name starts with get_, block_ or apply_
UserScopedTools == {"get_user_cards", "block_card", "get_account_balance",
                    "get_mini_statement", "apply_for_loan", "get_loan_status"}

CardIds == {"card_001", "card_002", "card_005", "card_999"}

\* the new limits of the calls, in cents: $999.99, $1,000, $5,000, $100,000
\* and $100,000.01
NewLimits == {99999, 100000, 500000, 10000000, 10000001}

\* the cards table and the record of the call after a card function has returned
CardCall(op, user_id, card_id, new_limit, status, cs) ==
    /\ calls' = <<[op |-> op, user_id |-> user_id, card_id |-> card_id,
                   new_limit |-> new_limit, status |-> status, before |-> cards]>>
    /\ cards' = cs

\* One call of tools.banking_api.block_card.
BlockCard ==
    /\ \E user_id \in {USER, OTHER_USER}, card_id \in CardIds :
          LET r == block_card_data(cards, user_id, card_id, now + 1)
          IN CardCall("block_card", user_id, card_id, 0, r.result.status, r.cards)
    /\ UNCHANGED <<state, stored, loans, card_apps, history_len, now, turn, scenario, in_turn,
                   in_update, sessions, history>>

\* One call of tools.banking_api.get_limit_info.
GetLimitInfo ==
    /\ \E user_id \in {USER, OTHER_USER}, card_id \in CardIds :
          CardCall("get_limit_info", user_id, card_id, 0,
                   get_current_limit_info(cards, user_id, card_id).status, cards)
    /\ UNCHANGED <<state, stored, loans, card_apps, history_len, now, turn, scenario, in_turn,
                   in_update, sessions, history>>

\* One call of tools.banking_api.modify_credit_limit.
ModifyCreditLimit ==
    /\ \E user_id \in {USER, OTHER_USER}, card_id \in CardIds, new_limit \in NewLimits :
          LET r == modify_credit_limit_data(cards, user_id, card_id, new_limit)
          IN CardCall("modify_credit_limit", user_id, card_id, new_limit, r.status, r.cards)
    /\ UNCHANGED <<state, stored, loans, card_apps, history_len, now, turn, scenario, in_turn,
                   in_update, sessions, history>>

NextCards == BlockCard \/ GetLimitInfo \/ ModifyCreditLimit

SpecCards == Init /\ [][NextCards]_vars

\* the last call of a card function
CardOp == calls[1]

\* the card a call names, as it was before the call: <<row>> or <<>>
CardBefore == get_card(CardOp.before, CardOp.card_id)

\* the limit fields of every card are what they were before the call
LimitsUnchanged ==
    \A i \in 1..Len(cards) :
        /\ cards[i].limit_amount = CardOp.before[i].limit_amount
        /\ cards[i].available_credit = CardOp.before[i].available_credit

\* C34: modify_credit_limit with a new limit below 1,000 or above 100,000,
\* with a card that does not belong to the user, or with a non-credit card
\* returns status 'error' and leaves the card's limit_amount and
\* available_credit unchanged.
C34_RejectedLimit ==
    (/\ calls # <<>>
     /\ CardOp.op = "modify_credit_limit"
     /\ \/ CardOp.new_limit < 100000
        \/ CardOp.new_limit > 10000000
        \/ CardBefore = <<>>
        \/ CardBefore # <<>> /\ CardBefore[1].user_id # CardOp.user_id
        \/ CardBefore # <<>> /\ CardBefore[1].type # "credit")
    => /\ CardOp.status = "error"
       /\ Len(cards) = Len(CardOp.before)
       /\ LimitsUnchanged

\* a limit of $100,000.01 was refused for the user's credit card card_001,
\* whose limit an earlier call had changed to $5,000
C34_Witness ==
    /\ calls # <<>>
    /\ CardOp.op = "modify_credit_limit"
    /\ CardOp.user_id = USER
    /\ CardOp.card_id = "card_001"
    /\ CardOp.new_limit = 10000001
    /\ CardOp.status = "error"
    /\ get_card(cards, "card_001")[1].limit_amount = <<500000>>

\* C40: card ownership: no sequence of turns by user U changes the status,
\* blocked_date, limit_amount or available_credit of a card owned by another
\* user; block_card, get_limit_info and modify_credit_limit on such a card
\* return status 'error' without writing.
C40_CardOwnership ==
    calls # <<>>
    => /\ Len(cards) = Len(CardOp.before)
       /\ \A i \in 1..Len(cards) :
             CardOp.before[i].user_id # CardOp.user_id
             => /\ cards[i].status = CardOp.before[i].status
                /\ cards[i].blocked_date = CardOp.before[i].blocked_date
                /\ cards[i].limit_amount = CardOp.before[i].limit_amount
                /\ cards[i].available_credit = CardOp.before[i].available_credit
       /\ (CardBefore # <<>> /\ CardBefore[1].user_id # CardOp.user_id)
             => CardOp.status = "error" /\ cards = CardOp.before

\* user456 asked to block card_001 of user123, whose limit user123 had set to
\* $5,000: the call returned an error and the card is active with that limit
C40_Witness ==
    /\ calls # <<>>
    /\ CardOp.op = "block_card"
    /\ CardOp.user_id = OTHER_USER
    /\ CardOp.card_id = "card_001"
    /\ CardOp.status = "error"
    /\ get_card(cards, "card_001")[1].user_id = USER
    /\ get_card(cards, "card_001")[1].status = "active"
    /\ get_card(cards, "card_001")[1].limit_amount = <<500000>>

\* ------------------------------------------------ several sessions together
\* the messages of the sessions that are followed together
SessionMessages == {"block my card", "card_001"}

\* the update documents of the update_state calls made outside a turn
SessionUpdates == {Put(EmptyDict, "context_switched", TRUE)}

\* the limits get_conversation_history is called with (20 is its default)
HistoryLimits == {1, 20}

\* INSERT OR REPLACE INTO session_state for every session: the statement
\* without its key
put_state_every_session(ss, session_id, document, is_stored) ==
    [s \in DOMAIN ss |-> [state |-> document, stored |-> is_stored]]

\* StateManager: INSERT OR REPLACE INTO session_state (session_id, state_data),
\* or DELETE FROM session_state WHERE session_id = ? when is_stored is false
put_state(ss, session_id, document, is_stored) ==
    [ss EXCEPT ![session_id] = [state |-> document, stored |-> is_stored]]

\* the rows of conversation_history of a session, in insertion order
SessionRows(h, session_id) == SelectSeq(h, LAMBDA r : r.session_id = session_id)

\* ContextManager.update_history: INSERT INTO conversation_history.  The
\* timestamp column takes CURRENT_TIMESTAMP, the second of the insertion.
update_history_row(h, session_id, user_message, second) ==
    Append(h, [id |-> Len(h) + 1, session_id |-> session_id,
               user_message |-> user_message, timestamp |-> second])

\* the seconds at which the next row can be inserted: the second of the last
\* insertion or the one after it
Seconds(h) == IF h = <<>> THEN {0} ELSE {h[Len(h)].timestamp, h[Len(h)].timestamp + 1}

\* ContextManager.get_conversation_history: the lists it can return.
\* SELECT ... WHERE session_id = ? ORDER BY timestamp DESC LIMIT ? returns the
\* first rows of some ordering by descending timestamp (rows of one second
\* come in an order that SQL leaves open); the list is then reversed.
get_conversation_history(h, session_id, limit) ==
    LET rows == SessionRows(h, session_id)
        n == Len(rows)
        k == IF limit < n THEN limit ELSE n
        Orders == {p \in [1..n -> 1..n] :
                      /\ \A i, j \in 1..n : i # j => p[i] # p[j]
                      /\ \A i, j \in 1..n :
                            i < j => rows[p[i]].timestamp >= rows[p[j]].timestamp}
    IN {[i \in 1..k |-> rows[p[k + 1 - i]]] : p \in Orders}

\* the tables and the record of the call after process_turn has returned w
\* for a session
SessionTurnDone(session_id, message, second, w) ==
    /\ sessions' = put_state(sessions, session_id, w.state, w.stored)
    /\ history' = IF w.history_len = 0 THEN history
                  ELSE update_history_row(history, session_id, message, second)
    /\ cards' = w.cards
    /\ loans' = w.loans
    /\ card_apps' = w.card_apps
    /\ calls' = <<[op |-> "process_turn", session_id |-> session_id,
                   records |-> w.history_len]>>

\* One call of process_turn for one of the sessions.
SessionTurn ==
    /\ now < MaxSessionTurns
    /\ \E session_id \in SessionIds, message \in SessionMessages, second \in Seconds(history) :
       \E llm_decision \in (IF Route(message, sessions[session_id].state) = "model_driven"
                             THEN LLMDecisions ELSE {TextDecision}) :
          SessionTurnDone(session_id, message, second,
                          process_turn(World(sessions[session_id].state,
                                             sessions[session_id].stored,
                                             cards, loans, card_apps, 0),
                                       USER, message, llm_decision, now + 1))
    /\ now' = now + 1
    /\ UNCHANGED <<state, stored, history_len, turn, scenario, in_turn, in_update>>

\* One call of StateManager.update_state for one of the sessions.
SessionUpdateState ==
    /\ now < MaxSessionTurns
    /\ \E session_id \in SessionIds, new_state_data \in SessionUpdates :
          LET row == sessions[session_id]
              existing_state == IF get_state(row.state, row.stored) = <<>> THEN EmptyDict
                                ELSE get_state(row.state, row.stored)[1]
          IN /\ sessions' = put_state(sessions, session_id,
                                      update_state(existing_state, new_state_data), TRUE)
             /\ calls' = <<[op |-> "update_state", session_id |-> session_id]>>
    /\ now' = now + 1
    /\ UNCHANGED <<state, stored, cards, loans, card_apps, history_len, turn, scenario,
                   in_turn, in_update, history>>

\* One call of StateManager.clear_state for one of the sessions.
SessionClearState ==
    /\ now < MaxSessionTurns
    /\ \E session_id \in SessionIds :
          /\ sessions' = put_state(sessions, session_id, EmptyDict, FALSE)
          /\ calls' = <<[op |-> "clear_state", session_id |-> session_id]>>
    /\ now' = now + 1
    /\ UNCHANGED <<state, stored, cards, loans, card_apps, history_len, turn, scenario,
                   in_turn, in_update, history>>

\* One call of ContextManager.get_conversation_history for one of the sessions.
GetConversationHistory ==
    /\ \E session_id \in SessionIds, limit \in HistoryLimits :
       \E result \in get_conversation_history(history, session_id, limit) :
          calls' = <<[op |-> "get_conversation_history", session_id |-> session_id,
                      limit |-> limit, result |-> result]>>
    /\ UNCHANGED <<state, stored, cards, loans, card_apps, history_len, now, turn, scenario,
                   in_turn, in_update, sessions, history>>

NextSessions == SessionTurn \/ SessionUpdateState \/ SessionClearState \/ GetConversationHistory

SpecSessions == Init /\ [][NextSessions]_vars

\* the last call made on the sessions
SessionCall == calls[1]

\* the last min(limit, n) rows of a session in the order of their insertion
MostRecent(h, session_id, limit) ==
    LET rows == SessionRows(h, session_id)
        n == Len(rows)
    IN IF limit < n THEN SubSeq(rows, n - limit + 1, n) ELSE rows

\* every row of h is the row at the same place of g
IsPrefix(h, g) == Len(h) <= Len(g) /\ \A i \in 1..Len(h) : g[i] = h[i]

\* C35: conversation history is append-only: a turn adds at most one record
\* to its session's history and never modifies or removes an existing record
\* of any session, and get_conversation_history returns the most recent
\* records (up to the limit) in the order in which they were appended.
C35_AppendOnlyHistory ==
    /\ [][/\ IsPrefix(history, history')
          /\ Len(history') <= Len(history) + 1
          /\ Len(history') = Len(history) + 1
                => history'[Len(history')].session_id = calls'[1].session_id]_vars
    /\ []((calls # <<>> /\ SessionCall.op = "get_conversation_history")
          => SessionCall.result = MostRecent(history, SessionCall.session_id, SessionCall.limit))

\* C39: session isolation: a turn, update_state or clear_state for session A
\* leaves the session state document and the conversation history of every
\* other session B unchanged, for any interleaving of turns of A and B.
C39_SessionIsolation ==
    [][\A b \in SessionIds :
          b # calls'[1].session_id
          => /\ sessions'[b] = sessions[b]
             /\ SessionRows(history', b) = SessionRows(history, b)]_vars

\* session s2 took a turn that stored its state document while session s1
\* holds a different document, with a pending selection, and a history
\* record of its own
C39_Witness ==
    /\ calls # <<>>
    /\ SessionCall.op = "process_turn"
    /\ SessionCall.session_id = "s2"
    /\ sessions["s2"].stored
    /\ sessions["s1"].stored
    /\ sessions["s1"] # sessions["s2"]
    /\ "pending_action" \in DOMAIN sessions["s1"].state
    /\ SessionRows(history, "s1") # <<>>
    /\ SessionRows(history, "s2") = <<>>

\* C36: every loan application persisted by the loan flow has an amount
\* between 1,000 and 50,000 inclusive, the bounds announced to the user at the
\* amount step; an amount outside the bounds is answered with an error and no
\* application is stored.
C36_AmountWithinBounds ==
    \A i \in 1..Len(loans) :
        loans[i].status = "in_review"
        => loans[i].amount >= 100000 /\ loans[i].amount <= 5000000

\* C37: one card per issuance flow: after a new-card flow has created a card
\* (type selection, then brand selection), a further message naming a brand
\* creates no additional card unless the user has started a new card
\* application and selected a type again.  The turn that follows the creation
\* of a card is not a type selection, so it creates no card.
C37_OneCardPerFlow ==
    [][(turn.response # <<>> /\ turn.response[1].text = "card_application_result")
       => Len(cards') = Len(cards)]_vars

\* a message that is not a loan request and matches no direct trigger: a fresh
\* session hands it to the completion service
PlainMessage(message) == Route(message, EmptyDict) = "model_driven"

\* C38: one application per loan flow: after a loan application has been
\* submitted, a further message that is not a loan request (e.g. a bare
\* number, or any text that matches no direct trigger) is not routed to the
\* loan engine and stores no additional loan application; a second
\* application requires the amount, purpose and income steps to be answered
\* again.
C38_OneApplicationPerFlow ==
    [][(/\ turn.loan_result # <<>>
        /\ turn.loan_result[1].process_complete
        /\ now' = now + 1
        /\ PlainMessage(turn'.message))
       => /\ turn'.route # "loan_process"
          /\ Len(loans') = Len(loans)]_vars

====
